---- MODULE Spec2Model ----
(***************************************************************************)
(* better-styled: variant resolution, props merging and context            *)
(* propagation of styled components.                                       *)
(*                                                                         *)
(* JavaScript values are tagged pairs <<typeof-like tag, payload>>:        *)
(*   <<"undefined", "">>, <<"null", "">>, <<"boolean", "true"|"false">>,   *)
(*   <<"string", sequence of space-separated words>>,                      *)
(*   <<"number", n>>, <<"function", sequence of handler names it calls>>,  *)
(*   <<"function", handlers, "closure">> a function composeFunctions made, *)
(*   <<"object", entries, "new">> an object Object.assign({}, ...) made:   *)
(*                          equal fields, another reference,               *)
(*   <<"object", entries>>  a plain object, entries are <<key, value>> in  *)
(*                          property insertion order,                      *)
(*   <<"array", elements>>, <<"exotic", name>> a non-mergeable object.     *)
(***************************************************************************)
EXTENDS Integers, Sequences, FiniteSets, TLC

VARIABLES tree, call

vars == <<tree, call>>

----------------------------------------------------------------------------
(* Bounds *)

MaxNodes == 3
MaxChainNodes == 5
MaxTreeNodes == 6
MaxRules == 3
MaxSources == 3
MaxStyles == 3
MaxEdgeNodes == 3
MaxSwitchNodes == 3
MaxSlotCalls == 3
MaxForeignNodes == 3

----------------------------------------------------------------------------
(* JavaScript values *)

Undefined == <<"undefined", "">>
Null == <<"null", "">>
True == <<"boolean", "true">>
False == <<"boolean", "false">>
Str(words) == <<"string", words>>
Word(w) == <<"string", <<w>>>>
Fn(calls) == <<"function", calls>>
Obj(entries) == <<"object", entries>>
Arr(elements) == <<"array", elements>>
EmptyObj == <<"object", <<>>>>

typeof(v) == v[1]

Entries(o) == o[2]

SeqRange(s) == {s[i] : i \in 1..Len(s)}

ObjectKeys(o) == [i \in 1..Len(Entries(o)) |-> Entries(o)[i][1]]

KeySet(o) == {Entries(o)[i][1] : i \in 1..Len(Entries(o))}

HasKey(o, k) == \E i \in 1..Len(Entries(o)) : Entries(o)[i][1] = k

\* o[k]: the value of an own property, undefined when there is none
Get(o, k) ==
  IF HasKey(o, k)
  THEN Entries(o)[CHOOSE i \in 1..Len(Entries(o)) : Entries(o)[i][1] = k][2]
  ELSE Undefined

\* o[k] = v: an existing key keeps its position, a new key is appended
Put(o, k, v) ==
  IF HasKey(o, k)
  THEN Obj([i \in 1..Len(Entries(o)) |->
              IF Entries(o)[i][1] = k THEN <<k, v>> ELSE Entries(o)[i]])
  ELSE Obj(Append(Entries(o), <<k, v>>))

RECURSIVE PutAll(_, _)
PutAll(o, entries) ==
  IF entries = <<>> THEN o
  ELSE PutAll(Put(o, Head(entries)[1], Head(entries)[2]), Tail(entries))

\* {...a, ...b} where a and b are objects, null or undefined
ObjectSpread(a, b) ==
  LET ea == IF typeof(a) = "object" THEN Entries(a) ELSE <<>>
      eb == IF typeof(b) = "object" THEN Entries(b) ELSE <<>>
  IN PutAll(PutAll(EmptyObj, ea), eb)

\* a property key made of the words of a string
RECURSIVE JoinWords(_)
JoinWords(words) ==
  IF words = <<>> THEN ""
  ELSE IF Len(words) = 1 THEN words[1]
  ELSE words[1] \o " " \o JoinWords(Tail(words))

\* String(value) for a boolean
String(v) == Str(<<v[2]>>)

\* receiver[key], Object.entries(receiver) and destructuring raise a TypeError
\* when the receiver is undefined or null
ThrowsOnRead(receiver) == receiver \in {Undefined, Null}

Truthy(v) ==
  CASE typeof(v) = "undefined" -> FALSE
    [] typeof(v) = "null" -> FALSE
    [] typeof(v) = "boolean" -> v = True
    [] typeof(v) = "string" -> v[2] # <<>>
    [] typeof(v) = "number" -> v[2] # 0
    [] OTHER -> TRUE

----------------------------------------------------------------------------
(* utils/cn.ts *)

\* tailwind-merge's class groups: two classes of one group conflict, a class
\* of no group ("") conflicts with nothing
ClassGroup(w) ==
  CASE w \in {"p-2", "p-4"} -> "padding"
    [] w \in {"text-sm", "text-lg"} -> "font-size"
    [] OTHER -> ""

\* clsx: the truthy strings joined by one space
RECURSIVE clsx(_)
clsx(inputs) ==
  IF inputs = <<>> THEN <<>>
  ELSE (IF typeof(Head(inputs)) = "string" THEN Head(inputs)[2] ELSE <<>>)
       \o clsx(Tail(inputs))

\* twMerge: walks the classes from the last to the first and drops a class
\* whose group was already seen further right
RECURSIVE twMergeFrom(_, _, _, _)
twMergeFrom(words, i, seen, result) ==
  IF i = 0 THEN result
  ELSE LET g == ClassGroup(words[i])
       IN IF g = "" THEN twMergeFrom(words, i - 1, seen, <<words[i]>> \o result)
          ELSE IF g \in seen THEN twMergeFrom(words, i - 1, seen, result)
          ELSE twMergeFrom(words, i - 1, seen \cup {g}, <<words[i]>> \o result)

twMerge(words) == twMergeFrom(words, Len(words), {}, <<>>)

cn(inputs) ==
  LET result == Str(twMerge(clsx(inputs)))
  IN IF Truthy(result) THEN result ELSE Undefined

----------------------------------------------------------------------------
(* utils/merge.ts *)

isFunction(value) == typeof(value) = "function"

hasRequiresAnimatedComponentMarker(value) ==
  typeof(value) = "object" /\ HasKey(value, "_requiresAnimatedComponent")

\* plain prototype, no marker, only enumerable string data keys; a "proxy"
\* passes every test and throws when its properties are copied
isMergeableStyleObject(value) ==
  /\ typeof(value) \in {"object", "proxy"}
  /\ ~hasRequiresAnimatedComponentMarker(value)

RECURSIVE flattenStyleInput(_, _)
RECURSIVE flattenStyleInputs(_, _)
flattenStyleInput(style, result) ==
  IF style = Undefined \/ style = Null \/ style = False THEN result
  ELSE IF typeof(style) = "array" THEN flattenStyleInputs(style[2], result)
  ELSE Append(result, style)

flattenStyleInputs(styles, result) ==
  IF styles = <<>> THEN result
  ELSE flattenStyleInputs(Tail(styles), flattenStyleInput(Head(styles), result))

filterFunctions(functions) == SelectSeq(functions, isFunction)

RECURSIVE concatCalls(_)
concatCalls(functions) ==
  IF functions = <<>> THEN <<>>
  ELSE Head(functions)[2] \o concatCalls(Tail(functions))

\* a new function object that calls the handlers one after the other
Closure(calls) == <<"function", calls, "closure">>

\* what a handler written by the application returns
HandlerResult(handler) == Word(handler \o "-result")

\* fn(...args): the handler calls made, in order, and the value returned; a
\* closure of composeFunctions returns what the last handler returned
Invoke(fn, args) ==
  [calls |-> [i \in 1..Len(fn[2]) |-> <<fn[2][i], args>>],
   returns |-> IF fn[2] = <<>> THEN Undefined
               ELSE HandlerResult(fn[2][Len(fn[2])])]

\* the handlers called from the last one to the first
composeFunctions_reversed(functions) ==
  LET validFunctions == filterFunctions(functions)
      reversed == [i \in 1..Len(validFunctions) |->
                     validFunctions[Len(validFunctions) + 1 - i]]
  IN IF Len(validFunctions) = 0 THEN Closure(<<>>)
     ELSE IF Len(validFunctions) = 1 THEN validFunctions[1]
     ELSE Closure(concatCalls(reversed))

composeFunctions(functions) ==
  LET validFunctions == filterFunctions(functions)
  IN IF Len(validFunctions) = 0 THEN Closure(<<>>)
     ELSE IF Len(validFunctions) = 1 THEN validFunctions[1]
     ELSE Closure(concatCalls(validFunctions))

RECURSIVE objectAssign(_, _)
objectAssign(target, sources) ==
  IF sources = <<>> THEN target
  ELSE objectAssign(PutAll(target, Entries(Head(sources))), Tail(sources))

\* the object Object.assign({}, ...) returns: a reference of its own
NewObject(o) == <<"object", Entries(o), "new">>

\* an empty object where nothing is left to return
mergeStyles_emptyObject(styles) ==
  LET flattenedStyles == flattenStyleInputs(styles, <<>>)
      shouldMergeAsObject ==
        \A i \in 1..Len(flattenedStyles) : isMergeableStyleObject(flattenedStyles[i])
      throws == \E i \in 1..Len(flattenedStyles) : typeof(flattenedStyles[i]) = "proxy"
      merged == NewObject(objectAssign(EmptyObj, flattenedStyles))
  IN IF Len(flattenedStyles) = 0 THEN NewObject(EmptyObj)
     ELSE IF Len(flattenedStyles) = 1 THEN flattenedStyles[1]
     ELSE IF shouldMergeAsObject
          THEN IF throws THEN Arr(flattenedStyles) ELSE merged
     ELSE Arr(flattenedStyles)

\* a lone style copied like the others
mergeStyles_copiesSingle(styles) ==
  LET flattenedStyles == flattenStyleInputs(styles, <<>>)
      shouldMergeAsObject ==
        \A i \in 1..Len(flattenedStyles) : isMergeableStyleObject(flattenedStyles[i])
      throws == \E i \in 1..Len(flattenedStyles) : typeof(flattenedStyles[i]) = "proxy"
      merged == NewObject(objectAssign(EmptyObj, flattenedStyles))
  IN IF Len(flattenedStyles) = 0 THEN Undefined
     ELSE IF shouldMergeAsObject
          THEN IF throws THEN Arr(flattenedStyles)
               ELSE IF Len(Entries(merged)) > 0 THEN merged ELSE Undefined
     ELSE Arr(flattenedStyles)

\* the plain maps of a mixed list merged into one, ahead of the other elements
mergeStyles_mergesPlainOnes(styles) ==
  LET flattenedStyles == flattenStyleInputs(styles, <<>>)
      shouldMergeAsObject ==
        \A i \in 1..Len(flattenedStyles) : isMergeableStyleObject(flattenedStyles[i])
      throws == \E i \in 1..Len(flattenedStyles) : typeof(flattenedStyles[i]) = "proxy"
      merged == NewObject(objectAssign(EmptyObj, flattenedStyles))
      plainOnes == SelectSeq(flattenedStyles,
                     LAMBDA v : typeof(v) = "object" /\ isMergeableStyleObject(v))
      others == SelectSeq(flattenedStyles,
                  LAMBDA v : ~(typeof(v) = "object" /\ isMergeableStyleObject(v)))
  IN IF Len(flattenedStyles) = 0 THEN Undefined
     ELSE IF Len(flattenedStyles) = 1 THEN flattenedStyles[1]
     ELSE IF shouldMergeAsObject
          THEN IF throws THEN Arr(flattenedStyles)
               ELSE IF Len(Entries(merged)) > 0 THEN merged ELSE Undefined
     ELSE Arr(<<NewObject(objectAssign(EmptyObj, plainOnes))>> \o others)

mergeStyles(styles) ==
  LET flattenedStyles == flattenStyleInputs(styles, <<>>)
      shouldMergeAsObject ==
        \A i \in 1..Len(flattenedStyles) : isMergeableStyleObject(flattenedStyles[i])
      throws == \E i \in 1..Len(flattenedStyles) : typeof(flattenedStyles[i]) = "proxy"
      merged == NewObject(objectAssign(EmptyObj, flattenedStyles))
  IN IF Len(flattenedStyles) = 0 THEN Undefined
     ELSE IF Len(flattenedStyles) = 1 THEN flattenedStyles[1]
     ELSE IF shouldMergeAsObject
          THEN IF throws THEN Arr(flattenedStyles)
               ELSE IF Len(Entries(merged)) > 0 THEN merged ELSE Undefined
     ELSE Arr(flattenedStyles)

\* the loop without its first test: undefined is stored like any value
mergeEntry_undefinedStored(acc, key, value) ==
  IF key = "style" /\ Truthy(value)
  THEN [acc EXCEPT !.allStyles = Append(@, value)]
  ELSE IF key = "className" /\ typeof(value) = "string"
       THEN [acc EXCEPT !.allClassNames = Append(@, value)]
  ELSE IF isFunction(value)
       THEN [acc EXCEPT !.functionsToCompose =
               Put(@, key, Arr(Append(
                 IF HasKey(@, key) THEN Get(@, key)[2] ELSE <<>>, value)))]
  ELSE [acc EXCEPT !.finalProps = Put(@, key, value)]

\* the accumulators of mergeFinalProps' loop
EmptyAcc ==
  [finalProps |-> EmptyObj, allStyles |-> <<>>, allClassNames |-> <<>>,
   functionsToCompose |-> EmptyObj]

\* every defined style handed to mergeStyles, the falsy ones too
mergeEntry_everyStyleMerged(acc, key, value) ==
  IF value = Undefined THEN acc
  ELSE IF key = "style"
       THEN [acc EXCEPT !.allStyles = Append(@, value)]
  ELSE IF key = "className" /\ typeof(value) = "string"
       THEN [acc EXCEPT !.allClassNames = Append(@, value)]
  ELSE IF isFunction(value)
       THEN [acc EXCEPT !.functionsToCompose =
               Put(@, key, Arr(Append(
                 IF HasKey(@, key) THEN Get(@, key)[2] ELSE <<>>, value)))]
  ELSE [acc EXCEPT !.finalProps = Put(@, key, value)]

\* rightmost wins between a function and a later value that is none
mergeEntry_laterValueReplaces(acc, key, value) ==
  IF value = Undefined THEN acc
  ELSE IF key = "style" /\ Truthy(value)
       THEN [acc EXCEPT !.allStyles = Append(@, value)]
  ELSE IF key = "className" /\ typeof(value) = "string"
       THEN [acc EXCEPT !.allClassNames = Append(@, value)]
  ELSE IF isFunction(value)
       THEN [acc EXCEPT !.functionsToCompose =
               Put(@, key, Arr(Append(
                 IF HasKey(@, key) THEN Get(@, key)[2] ELSE <<>>, value)))]
  ELSE [acc EXCEPT !.finalProps = Put(@, key, value),
                   !.functionsToCompose =
                      Obj(SelectSeq(Entries(@), LAMBDA e : e[1] # key))]

mergeEntry(acc, key, value) ==
  IF value = Undefined THEN acc
  ELSE IF key = "style" /\ Truthy(value)
       THEN [acc EXCEPT !.allStyles = Append(@, value)]
  ELSE IF key = "className" /\ typeof(value) = "string"
       THEN [acc EXCEPT !.allClassNames = Append(@, value)]
  ELSE IF isFunction(value)
       THEN [acc EXCEPT !.functionsToCompose =
               Put(@, key, Arr(Append(
                 IF HasKey(@, key) THEN Get(@, key)[2] ELSE <<>>, value)))]
  ELSE [acc EXCEPT !.finalProps = Put(@, key, value)]

RECURSIVE mergeEntries(_, _)
mergeEntries(acc, entries) ==
  IF entries = <<>> THEN acc
  ELSE mergeEntries(mergeEntry(acc, Head(entries)[1], Head(entries)[2]),
                    Tail(entries))

RECURSIVE mergeSources(_, _)
mergeSources(acc, propSources) ==
  IF propSources = <<>> THEN acc
  ELSE IF typeof(Head(propSources)) # "object"
       THEN mergeSources(acc, Tail(propSources))
  ELSE mergeSources(mergeEntries(acc, Entries(Head(propSources))),
                    Tail(propSources))

RECURSIVE composeAll(_, _)
composeAll(finalProps, functionEntries) ==
  IF functionEntries = <<>> THEN finalProps
  ELSE composeAll(Put(finalProps, Head(functionEntries)[1],
                      composeFunctions(Head(functionEntries)[2][2])),
                  Tail(functionEntries))

\* className set to whatever the class strings join to, empty or not
mergeFinalProps_emptyClassName(propSources) ==
  LET acc == mergeSources(EmptyAcc, propSources)
      mergedStyle == mergeStyles(acc.allStyles)
      withStyle == IF mergedStyle # Undefined
                   THEN Put(acc.finalProps, "style", mergedStyle)
                   ELSE acc.finalProps
      withClassName == IF acc.allClassNames # <<>>
                       THEN Put(withStyle, "className",
                                Str(twMerge(clsx(acc.allClassNames))))
                       ELSE withStyle
  IN composeAll(withClassName, Entries(acc.functionsToCompose))

mergeFinalProps(propSources) ==
  LET acc == mergeSources(EmptyAcc, propSources)
      mergedStyle == mergeStyles(acc.allStyles)
      withStyle == IF mergedStyle # Undefined
                   THEN Put(acc.finalProps, "style", mergedStyle)
                   ELSE acc.finalProps
      mergedClassName == cn(acc.allClassNames)
      withClassName == IF Truthy(mergedClassName)
                       THEN Put(withStyle, "className", mergedClassName)
                       ELSE withStyle
  IN composeAll(withClassName, Entries(acc.functionsToCompose))

\* the sources read without the test that skips the missing ones
mergeFinalPropsThrows_unguarded(propSources) ==
  \E i \in 1..Len(propSources) : ThrowsOnRead(propSources[i])

\* Object.entries(source) is reached only past "if (!source) continue"
mergeFinalPropsThrows(propSources) ==
  \E i \in 1..Len(propSources) :
     Truthy(propSources[i]) /\ ThrowsOnRead(propSources[i])

----------------------------------------------------------------------------
(* utils/resolveVariants.ts *)

\* an axis without an active value read as false
matchesCompoundConditions_absentIsFalse(conditions, activeVariants) ==
  \A i \in 1..Len(Entries(conditions)) :
     (IF HasKey(activeVariants, Entries(conditions)[i][1])
      THEN Get(activeVariants, Entries(conditions)[i][1])
      ELSE False) = Entries(conditions)[i][2]

matchesCompoundConditions(conditions, activeVariants) ==
  \A i \in 1..Len(Entries(conditions)) :
     Get(activeVariants, Entries(conditions)[i][1]) = Entries(conditions)[i][2]

\* an unknown token answered with the first token the axis declares
RECURSIVE variantFragments_fallback(_, _)
variantFragments_fallback(variants, activeEntries) ==
  IF activeEntries = <<>> THEN <<>>
  ELSE LET variantKey == Head(activeEntries)[1]
           variantValue == Head(activeEntries)[2]
           variantConfig == Get(variants, variantKey)
           lookupKey == IF typeof(variantValue) = "boolean"
                        THEN String(variantValue) ELSE variantValue
           propsForVariant ==
             IF HasKey(variantConfig, JoinWords(lookupKey[2]))
             THEN Get(variantConfig, JoinWords(lookupKey[2]))
             ELSE IF Entries(variantConfig) # <<>> THEN Entries(variantConfig)[1][2]
             ELSE Undefined
       IN (IF Truthy(variantConfig) /\ Truthy(propsForVariant)
           THEN <<propsForVariant>> ELSE <<>>)
          \o variantFragments_fallback(variants, Tail(activeEntries))

\* the loop run over the axes of the table, in the order it declares them
RECURSIVE variantFragments_tableOrder(_, _)
variantFragments_tableOrder(variants, activeEntries) ==
  IF Entries(variants) = <<>> THEN <<>>
  ELSE LET variantKey == Entries(variants)[1][1]
           variantConfig == Entries(variants)[1][2]
           variantValue == Get(Obj(activeEntries), variantKey)
           lookupKey == IF typeof(variantValue) = "boolean"
                        THEN String(variantValue) ELSE variantValue
           propsForVariant == Get(variantConfig, JoinWords(lookupKey[2]))
       IN (IF HasKey(Obj(activeEntries), variantKey)
              /\ Truthy(variantConfig) /\ Truthy(propsForVariant)
           THEN <<propsForVariant>> ELSE <<>>)
          \o variantFragments_tableOrder(Obj(Tail(Entries(variants))), activeEntries)

\* the fragments pushed by resolveVariantProps' loop over Object.entries(activeVariants)
RECURSIVE variantFragments(_, _)
variantFragments(variants, activeEntries) ==
  IF activeEntries = <<>> THEN <<>>
  ELSE LET variantKey == Head(activeEntries)[1]
           variantValue == Head(activeEntries)[2]
           variantConfig == Get(variants, variantKey)
           lookupKey == IF typeof(variantValue) = "boolean"
                        THEN String(variantValue) ELSE variantValue
           propsForVariant == Get(variantConfig, JoinWords(lookupKey[2]))
       IN (IF Truthy(variantConfig) /\ Truthy(propsForVariant)
           THEN <<propsForVariant>> ELSE <<>>)
          \o variantFragments(variants, Tail(activeEntries))

resolveVariantProps(variants, activeVariants) ==
  IF ~Truthy(variants) THEN EmptyObj
  ELSE mergeFinalProps(variantFragments(variants, Entries(activeVariants)))

\* variants[variantKey] is read past "if (!variants) return {}" and
\* variantConfig[lookupKey] past "if (!variantConfig) continue"
resolveVariantPropsThrows(variants, activeVariants) ==
  /\ Truthy(variants)
  /\ \/ \E i \in 1..Len(Entries(activeVariants)) :
           \/ ThrowsOnRead(variants)
           \/ /\ Truthy(Get(variants, Entries(activeVariants)[i][1]))
              /\ ThrowsOnRead(Get(variants, Entries(activeVariants)[i][1]))
     \/ mergeFinalPropsThrows(variantFragments(variants, Entries(activeVariants)))

\* const { props, ...conditions } = compound
RestConditions(compound) ==
  Obj(SelectSeq(Entries(compound), LAMBDA e : e[1] # "props"))

\* the loop left at the first rule that matches
RECURSIVE matchingFragments_firstOnly(_, _)
matchingFragments_firstOnly(compounds, activeVariants) ==
  IF compounds = <<>> THEN <<>>
  ELSE IF matchesCompoundConditions(RestConditions(Head(compounds)), activeVariants)
       THEN <<Get(Head(compounds), "props")>>
  ELSE matchingFragments_firstOnly(Tail(compounds), activeVariants)

\* the loop over compoundVariants: matchingProps in declaration order
RECURSIVE matchingFragments(_, _)
matchingFragments(compounds, activeVariants) ==
  IF compounds = <<>> THEN <<>>
  ELSE (IF matchesCompoundConditions(RestConditions(Head(compounds)), activeVariants)
        THEN <<Get(Head(compounds), "props")>> ELSE <<>>)
       \o matchingFragments(Tail(compounds), activeVariants)

resolveCompoundVariantProps(compoundVariants, activeVariants) ==
  IF ~Truthy(compoundVariants) \/ Len(compoundVariants[2]) = 0 THEN EmptyObj
  ELSE mergeFinalProps(matchingFragments(compoundVariants[2], activeVariants))

\* each rule is destructured and activeVariants[key] is read, past the test
\* "!compoundVariants || compoundVariants.length === 0"
resolveCompoundVariantPropsThrows(compoundVariants, activeVariants) ==
  /\ Truthy(compoundVariants) /\ Len(compoundVariants[2]) > 0
  /\ \/ \E i \in 1..Len(compoundVariants[2]) : ThrowsOnRead(compoundVariants[2][i])
     \/ ThrowsOnRead(activeVariants)
     \/ mergeFinalPropsThrows(matchingFragments(compoundVariants[2], activeVariants))

----------------------------------------------------------------------------
(* createStyledContext.ts *)

\* id stands for the identity of the object createContext(null) returns
createStyledContext(id, variants) ==
  <<"context", [id |-> id, variantKeys |-> variants]>>

----------------------------------------------------------------------------
(* styled.ts *)

\* the axes of the context's schema taken for axes of the component
styled_schemaAxes(component, config) ==
  [component |-> component,
   context |-> config.context,
   base |-> config.base,
   variants |-> config.variants,
   defaultVariants |-> config.defaultVariants,
   compoundVariants |-> config.compoundVariants,
   variantKeys |-> (IF Truthy(config.variants) THEN KeySet(config.variants) ELSE {})
                     \cup (IF typeof(config.context) = "context"
                           THEN KeySet(config.context[2].variantKeys) ELSE {})]

\* styled(component, config): the closure StyledComponent keeps
styled(component, config) ==
  [component |-> component,
   context |-> config.context,
   base |-> config.base,
   variants |-> config.variants,
   defaultVariants |-> config.defaultVariants,
   compoundVariants |-> config.compoundVariants,
   variantKeys |-> IF Truthy(config.variants) THEN KeySet(config.variants) ELSE {}]

\* context?.useVariants() ?? {}
readContextVariants(self, ambient) ==
  IF typeof(self.context) = "context" /\ typeof(ambient) = "object"
  THEN ambient ELSE EmptyObj

\* the spread written the other way round: defaults overwrite the context
initialActiveVariants_defaultsLast(self, contextVariants) ==
  ObjectSpread(contextVariants, self.defaultVariants)

\* { ...defaultVariants, ...contextVariants }
initialActiveVariants(self, contextVariants) ==
  ObjectSpread(self.defaultVariants, contextVariants)

\* the test without its first half: every defined prop is a selection
isVariantProp_everyDefinedProp(variantKeys, key, value) == value # Undefined

\* the test that makes a prop a variant selection
isVariantProp(variantKeys, key, value) ==
  key \in variantKeys /\ value # Undefined

\* the loop over Object.entries(incomingProps)
RECURSIVE partitionProps(_, _, _)
partitionProps(variantKeys, part, entries) ==
  IF entries = <<>> THEN part
  ELSE LET key == Head(entries)[1]
           value == Head(entries)[2]
       IN partitionProps(variantKeys,
            IF isVariantProp(variantKeys, key, value)
            THEN [part EXCEPT !.activeVariants = Put(@, key, value),
                              !.hasVariantProps = TRUE]
            ELSE [part EXCEPT !.directProps = Put(@, key, value)],
            Tail(entries))

\* the compound fragments merged before the single-axis variant fragments
finalPropsOf_compoundFirst(base, variantResolvedProps, compoundResolvedProps, directProps) ==
  mergeFinalProps(<<base, compoundResolvedProps, variantResolvedProps, directProps>>)

\* mergeFinalProps(base, variantResolvedProps, compoundResolvedProps, directProps)
finalPropsOf(base, variantResolvedProps, compoundResolvedProps, directProps) ==
  mergeFinalProps(<<base, variantResolvedProps, compoundResolvedProps, directProps>>)

hasDefaults(self) ==
  Truthy(self.defaultVariants) /\ Len(Entries(self.defaultVariants)) > 0

\* every context-bound component re-provides
isRoot_always(self, hasVariantProps) == typeof(self.context) = "context"

\* election by variant props alone
isRoot_propsOnly(self, hasVariantProps) ==
  typeof(self.context) = "context" /\ hasVariantProps

\* context && (hasVariantProps || hasDefaults)
isRoot(self, hasVariantProps) ==
  typeof(self.context) = "context" /\ (hasVariantProps \/ hasDefaults(self))

\* the whole of activeVariants handed to the Provider
propagatedVariants_unfiltered(context, activeVariants) == activeVariants

\* the Provider's value: the entries of activeVariants whose key is in the schema
propagatedVariants(context, activeVariants) ==
  Obj(SelectSeq(Entries(activeVariants),
                LAMBDA e : e[1] \in KeySet(context[2].variantKeys)))

\* the reads of one call of StyledComponent that can raise a TypeError;
\* context?.useVariants() and the two spreads never do
StyledComponentThrows(self, incomingProps, activeVariants, propSources, wrap) ==
  \/ ThrowsOnRead(incomingProps)
  \/ resolveVariantPropsThrows(self.variants, activeVariants)
  \/ resolveCompoundVariantPropsThrows(self.compoundVariants, activeVariants)
  \/ mergeFinalPropsThrows(propSources)
  \/ wrap /\ ThrowsOnRead(self.context[2].variantKeys)

\* one call of StyledComponent: ambient is what context.useVariants() returns
StyledComponent(self, ambient, incomingProps) ==
  LET contextVariants == readContextVariants(self, ambient)
      part == partitionProps(self.variantKeys,
                [activeVariants |-> initialActiveVariants(self, contextVariants),
                 directProps |-> EmptyObj,
                 hasVariantProps |-> FALSE],
                Entries(incomingProps))
      activeVariants == part.activeVariants
      variantResolvedProps == resolveVariantProps(self.variants, activeVariants)
      compoundResolvedProps ==
        resolveCompoundVariantProps(self.compoundVariants, activeVariants)
      wrap == isRoot(self, part.hasVariantProps)
  IN [contextVariants |-> contextVariants,
      activeVariants |-> activeVariants,
      directProps |-> part.directProps,
      hasVariantProps |-> part.hasVariantProps,
      variantResolvedProps |-> variantResolvedProps,
      compoundResolvedProps |-> compoundResolvedProps,
      finalProps |-> finalPropsOf(self.base, variantResolvedProps,
                                  compoundResolvedProps, part.directProps),
      provider |-> wrap,
      value |-> IF wrap THEN propagatedVariants(self.context, activeVariants)
                ELSE Undefined,
      completed |-> ~StyledComponentThrows(self, incomingProps, activeVariants,
                       <<self.base, variantResolvedProps, compoundResolvedProps,
                         part.directProps>>, wrap)]

----------------------------------------------------------------------------
(* The contexts and styled components the application defines at load time *)

ContextA == createStyledContext("A",
  Obj(<< <<"variant", Arr(<<Word("a"), Word("b"), Word("c")>>)>> >>))

\* a second context whose schema uses the same axis name
ContextB == createStyledContext("B",
  Obj(<< <<"variant", Arr(<<Word("a"), Word("b"), Word("c")>>)>> >>))

VariantAxis ==
  Obj(<< <<"a", Obj(<< <<"className", Word("variant-a")>> >>)>>,
         <<"b", Obj(<< <<"className", Word("variant-b")>>,
                       <<"id", Word("variant-id")>>,
                       <<"onClick", Fn(<<"variantClick">>)>> >>)>>,
         <<"c", Obj(<< <<"className", Word("variant-c")>> >>)>> >>)

\* spacing is in no context schema: a local variant
SpacingAxis ==
  Obj(<< <<"sm", Obj(<< <<"className", Word("p-2")>> >>)>>,
         <<"lg", Obj(<< <<"className", Word("p-4")>>,
                        <<"style", Obj(<< <<"padding", Word("4")>> >>)>> >>)>> >>)

NodeCompounds ==
  Arr(<< Obj(<< <<"variant", Word("b")>>, <<"spacing", Word("lg")>>,
                <<"props", Obj(<< <<"className", Word("compound")>>,
                                  <<"id", Word("compound-id")>>,
                                  <<"style", Obj(<< <<"padding", Word("8")>> >>)>> >>)>> >>) >>)

NodeBase ==
  Obj(<< <<"className", Str(<<"node", "p-2">>)>>, <<"id", Word("base-id")>>,
         <<"onClick", Fn(<<"baseClick">>)>>,
         <<"style", Obj(<< <<"color", Word("red")>> >>)>> >>)

\* bound to A, shared axis variant and local axis spacing, no defaults
Node == styled("div",
  [context |-> ContextA, base |-> NodeBase,
   variants |-> Obj(<< <<"variant", VariantAxis>>, <<"spacing", SpacingAxis>> >>),
   defaultVariants |-> Undefined, compoundVariants |-> NodeCompounds])

\* bound to A, defaults for the shared and for the local axis
Defaulted == styled("section",
  [context |-> ContextA, base |-> Obj(<< <<"className", Word("defaulted")>> >>),
   variants |-> Obj(<< <<"spacing", SpacingAxis>>, <<"variant", VariantAxis>> >>),
   defaultVariants |-> Obj(<< <<"variant", Word("b")>>, <<"spacing", Word("sm")>> >>),
   compoundVariants |-> NodeCompounds])

\* bound to B
NodeB == styled("span",
  [context |-> ContextB, base |-> Undefined,
   variants |-> Obj(<< <<"variant", VariantAxis>> >>),
   defaultVariants |-> EmptyObj, compoundVariants |-> Undefined])

\* bound to no context
Plain == styled("p",
  [context |-> Undefined, base |-> Obj(<< <<"id", Word("base-id")>> >>),
   variants |-> Obj(<< <<"variant", VariantAxis>> >>),
   defaultVariants |-> Obj(<< <<"variant", Word("a")>> >>),
   compoundVariants |-> Arr(<<>>)])

\* bound to A, declares no variants of its own
Label == styled("label",
  [context |-> ContextA, base |-> Obj(<< <<"className", Word("label")>> >>),
   variants |-> Undefined, defaultVariants |-> Undefined,
   compoundVariants |-> Undefined])

\* bound to A, the shared axis only
Item == styled("span",
  [context |-> ContextA, base |-> Obj(<< <<"className", Word("item")>> >>),
   variants |-> Obj(<< <<"variant", VariantAxis>> >>),
   defaultVariants |-> Undefined, compoundVariants |-> Undefined])

\* bound to A with an empty config but for one axis, and compound rules
\* that name an axis no table declares or carry no props
Odd == styled("div",
  [context |-> ContextA, base |-> Undefined,
   variants |-> Obj(<< <<"variant", VariantAxis>> >>),
   defaultVariants |-> Undefined,
   compoundVariants |->
     Arr(<< Obj(<< <<"ghost", Word("x")>>,
                   <<"props", Obj(<< <<"className", Word("ghost-compound")>> >>)>> >>),
            Obj(<< <<"variant", Word("b")>>, <<"props", Undefined>> >>) >>)])

\* a context whose one axis is declared boolean
ContextS == createStyledContext("S",
  Obj(<< <<"disabled", Arr(<<Word("boolean")>>)>> >>))

\* a boolean axis with a fragment under each token; the fragment of true sets
\* the prop that has the axis's own name
DisabledAxis ==
  Obj(<< <<"true", Obj(<< <<"className", Word("is-disabled")>>,
                          <<"disabled", True>> >>)>>,
         <<"false", Obj(<< <<"className", Word("is-enabled")>> >>)>> >>)

\* a boolean axis with a fragment under true only
LoadingAxis ==
  Obj(<< <<"true", Obj(<< <<"className", Word("is-loading")>> >>)>> >>)

SwitchCompounds ==
  Arr(<< Obj(<< <<"disabled", False>>,
                <<"props", Obj(<< <<"className", Word("compound-enabled")>> >>)>> >>),
         Obj(<< <<"loading", False>>,
                <<"props", Obj(<< <<"className", Word("compound-idle")>> >>)>> >>) >>)

\* bound to S, boolean axes, no defaults
Switch == styled("button",
  [context |-> ContextS, base |-> Obj(<< <<"className", Word("switch")>> >>),
   variants |-> Obj(<< <<"disabled", DisabledAxis>>, <<"loading", LoadingAxis>> >>),
   defaultVariants |-> Undefined, compoundVariants |-> SwitchCompounds])

\* the same component with disabled false by default
SwitchOff == styled("button",
  [context |-> ContextS, base |-> Obj(<< <<"className", Word("switch")>> >>),
   variants |-> Obj(<< <<"disabled", DisabledAxis>>, <<"loading", LoadingAxis>> >>),
   defaultVariants |-> Obj(<< <<"disabled", False>> >>),
   compoundVariants |-> SwitchCompounds])

\* bound to A, the local axis only: variant is an axis of the schema that
\* the component does not declare
Spacer == styled("div",
  [context |-> ContextA, base |-> Obj(<< <<"className", Word("spacer")>> >>),
   variants |-> Obj(<< <<"spacing", SpacingAxis>> >>),
   defaultVariants |-> Undefined, compoundVariants |-> Undefined])

\* the same component with a default for its axis
SpacerDefaulted == styled("div",
  [context |-> ContextA, base |-> Obj(<< <<"className", Word("spacer")>> >>),
   variants |-> Obj(<< <<"spacing", SpacingAxis>> >>),
   defaultVariants |-> Obj(<< <<"spacing", Word("sm")>> >>),
   compoundVariants |-> Undefined])

Components == {"Node", "Defaulted", "NodeB", "Plain", "Label"}

Component(type) ==
  CASE type = "Node" -> Node
    [] type = "Defaulted" -> Defaulted
    [] type = "NodeB" -> NodeB
    [] type = "Plain" -> Plain
    [] type = "Label" -> Label
    [] type = "Item" -> Item
    [] type = "Odd" -> Odd
    [] type = "Spacer" -> Spacer
    [] type = "SpacerDefaulted" -> SpacerDefaulted
    [] type = "Switch" -> Switch
    [] type = "SwitchOff" -> SwitchOff

\* the props of the elements the application renders
NoProps == EmptyObj
PropsA == Obj(<< <<"variant", Word("a")>> >>)
PropsB ==
  Obj(<< <<"spacing", Word("lg")>>, <<"variant", Word("b")>>,
         <<"id", Word("direct-id")>> >>)
PropsUndefined ==
  Obj(<< <<"variant", Undefined>>, <<"id", Word("direct-id")>>,
         <<"className", Str(<<"custom", "p-4">>)>> >>)
PropsLocal ==
  Obj(<< <<"spacing", Word("lg")>>, <<"id", Undefined>>,
         <<"onClick", Word("not-a-function")>>,
         <<"style", Obj(<< <<"color", Word("blue")>> >>)>> >>)

PropsC == Obj(<< <<"variant", Word("c")>> >>)

\* a value the axis has no token for
PropsUnknownToken == Obj(<< <<"variant", Word("zzz")>> >>)

\* an axis name no table declares
PropsGhost == Obj(<< <<"ghost", Word("x")>>, <<"id", Word("direct-id")>> >>)

\* the elements <type {...props}> the application renders
ElementProps(type) ==
  CASE type = "Node" -> {NoProps, PropsA, PropsB, PropsUndefined, PropsLocal}
    [] type = "Defaulted" -> {NoProps, PropsC, PropsUndefined}
    [] type = "NodeB" -> {NoProps, PropsA, PropsB}
    [] type = "Plain" -> {NoProps, PropsB}
    [] type = "Label" -> {NoProps, PropsA}

Elements == {e \in Components \X UNION {ElementProps(t) : t \in Components} :
               e[2] \in ElementProps(e[1])}

\* a chain of components bound to context A
ChainElements ==
  ({"Node"} \X {NoProps, PropsA, PropsB, PropsC})
    \cup {<<"Defaulted", NoProps>>, <<"Label", NoProps>>}

\* a tree of Item elements under a root that selects variant a
TreeRootElements == {<<"Item", PropsA>>}

TreeElements == {"Item"} \X {NoProps, PropsB, PropsC}

\* elements with unknown axes, unknown tokens and missing config
EdgeElements ==
  ({"Odd"} \X {NoProps, PropsGhost, PropsUnknownToken, PropsB})
    \cup {<<"Label", NoProps>>, <<"Plain", PropsB>>}

\* the props of the elements with boolean axes
PropsOff == Obj(<< <<"disabled", False>> >>)

PropsOn ==
  Obj(<< <<"disabled", True>>, <<"loading", Undefined>>, <<"title", Word("t")>> >>)

PropsIdle == Obj(<< <<"loading", False>> >>)

\* the token of false given as a string
PropsFalseString == Obj(<< <<"disabled", Word("false")>> >>)

SwitchElements ==
  ({"Switch"} \X {NoProps, PropsOff, PropsOn, PropsIdle, PropsFalseString})
    \cup ({"SwitchOff"} \X {NoProps, PropsOff, PropsOn})
    \cup {<<"Label", PropsA>>, <<"Node", PropsUndefined>>}

\* a schema axis and the local axis
PropsCLocal == Obj(<< <<"variant", Word("c")>>, <<"spacing", Word("lg")>> >>)

\* elements given a prop that names an axis of the schema their component
\* does not declare, among elements of components that declare it
ForeignElements ==
  ({"Node"} \X {NoProps, PropsA, PropsB})
    \cup ({"Label"} \X {NoProps, PropsA})
    \cup ({"Spacer"} \X {NoProps, PropsC, PropsCLocal})
    \cup {<<"SpacerDefaulted", PropsC>>}

----------------------------------------------------------------------------
(* Rendering: React renders a parent before its children, depth first *)

NoCall == [fn |-> "none", args |-> <<>>, result |-> Undefined]

\* one current value per context, set by whichever Provider rendered last
useContext_lastRendered(t, context, p) ==
  LET providers == {i \in 1..Len(t) :
                      t[i].provider /\ Component(t[i].type).context = context}
  IN IF p = 0 \/ providers = {} THEN Null
     ELSE t[CHOOSE i \in providers : \A j \in providers : j <= i].value

\* the nearest enclosing Provider of any context
RECURSIVE useContext_anyContext(_, _, _)
useContext_anyContext(t, context, p) ==
  IF p = 0 THEN Null
  ELSE IF t[p].provider THEN t[p].value
  ELSE useContext_anyContext(t, context, t[p].parent)

\* the outermost enclosing Provider instead of the nearest one
RECURSIVE useContext_outermost(_, _, _)
useContext_outermost(t, context, p) ==
  IF p = 0 THEN Null
  ELSE IF useContext_outermost(t, context, t[p].parent) # Null
       THEN useContext_outermost(t, context, t[p].parent)
  ELSE IF t[p].provider /\ Component(t[p].type).context = context THEN t[p].value
  ELSE Null

\* useContext(Context) under node p: the value of the nearest enclosing
\* Provider of that context, the default null when there is none
RECURSIVE useContext(_, _, _)
useContext(t, context, p) ==
  IF p = 0 THEN Null
  ELSE IF t[p].provider /\ Component(t[p].type).context = context THEN t[p].value
  ELSE useContext(t, context, t[p].parent)

\* context?.useVariants()
useVariants(t, self, p) ==
  IF typeof(self.context) = "context" THEN useContext(t, self.context, p)
  ELSE Undefined

RECURSIVE AncestorsOrSelf(_, _)
AncestorsOrSelf(t, n) ==
  IF n = 0 THEN {} ELSE {n} \cup AncestorsOrSelf(t, t[n].parent)

\* where the next element can be mounted: under the root of the render call
\* or under a node of the path being rendered
AttachPoints(t) == IF t = <<>> THEN {0} ELSE AncestorsOrSelf(t, Len(t))

Init == tree = <<>> /\ call = NoCall

\* React calls StyledComponent for the element <type {...props}> under p
Render(p, type, props) ==
  /\ p \in AttachPoints(tree)
  /\ \E r \in {StyledComponent(Component(type),
                               useVariants(tree, Component(type), p), props)} :
       tree' = Append(tree,
          [parent |-> p, type |-> type, props |-> props,
           contextVariants |-> r.contextVariants,
           activeVariants |-> r.activeVariants,
           directProps |-> r.directProps,
           hasVariantProps |-> r.hasVariantProps,
           variantResolvedProps |-> r.variantResolvedProps,
           compoundResolvedProps |-> r.compoundResolvedProps,
           finalProps |-> r.finalProps,
           provider |-> r.provider,
           value |-> r.value,
           completed |-> r.completed])
  /\ UNCHANGED call

Next ==
  \E p \in 0..MaxNodes, e \in Elements :
     Len(tree) < MaxNodes /\ Render(p, e[1], e[2])

Spec == Init /\ [][Next]_vars

\* a chain: every element is the only child of the one before
NextChain ==
  \E e \in ChainElements :
     Len(tree) < MaxChainNodes /\ Render(Len(tree), e[1], e[2])

SpecChain == Init /\ [][NextChain]_vars

\* a tree with siblings
NextTree ==
  \E p \in 0..MaxTreeNodes, e \in TreeRootElements \cup TreeElements :
     /\ Len(tree) < MaxTreeNodes
     /\ e \in (IF p = 0 THEN TreeRootElements ELSE TreeElements)
     /\ Render(p, e[1], e[2])

SpecTree == Init /\ [][NextTree]_vars

\* trees of the elements with unknown axes, unknown tokens and missing config
NextEdge ==
  \E p \in 0..MaxEdgeNodes, e \in EdgeElements :
     Len(tree) < MaxEdgeNodes /\ Render(p, e[1], e[2])

SpecEdge == Init /\ [][NextEdge]_vars

\* trees of the elements with boolean axes
NextSwitch ==
  \E p \in 0..MaxSwitchNodes, e \in SwitchElements :
     Len(tree) < MaxSwitchNodes /\ Render(p, e[1], e[2])

SpecSwitch == Init /\ [][NextSwitch]_vars

\* trees of the elements with props for axes of the schema alone
NextForeign ==
  \E p \in 0..MaxForeignNodes, e \in ForeignElements :
     Len(tree) < MaxForeignNodes /\ Render(p, e[1], e[2])

SpecForeign == Init /\ [][NextForeign]_vars

----------------------------------------------------------------------------
(* Direct calls of resolveCompoundVariantProps *)

\* the objects whose key k takes each value of vals, or is missing
WithOptional(objs, k, vals) ==
  objs \cup {Put(o, k, v) : o \in objs, v \in vals}

\* the conditions a compound rule can carry; the type makes every condition
\* optional, so a condition can also be written with the value undefined
RuleConditions ==
  WithOptional(WithOptional(WithOptional({EmptyObj},
    "variant", {Word("a")}), "size", {Word("lg"), Undefined}), "disabled", {True})

\* the rule declared at position i contributes its own class and id
RuleProps(i) ==
  Obj(<< <<"className", Word("c" \o ToString(i))>>,
         <<"id", Word("id" \o ToString(i))>> >>)

\* the conditions of the rules declared after the second one
LaterRuleConditions ==
  {Obj(<< <<"variant", Word("a")>> >>), Obj(<< <<"size", Word("sm")>> >>)}

RuleLists ==
  UNION {{[i \in 1..len |-> Put(conds[i], "props", RuleProps(i))] :
            conds \in {c \in [1..len -> RuleConditions] :
                         \A i \in 3..len : c[i] \in LaterRuleConditions}} :
         len \in 0..MaxRules}

CompoundInputs == {Undefined} \cup {Arr(rules) : rules \in RuleLists}

\* the ActiveSelections a render can build: strings and booleans, a boolean
\* axis possibly selected by the string "true"
ActiveInputs ==
  WithOptional(WithOptional(WithOptional({EmptyObj},
    "variant", {Word("a"), Word("b")}), "size", {Word("lg"), Word("sm")}),
    "disabled", {True, Word("true")})

Pending == <<"pending", "">>

InitCompound ==
  /\ tree = <<>>
  /\ call \in {[fn |-> "resolveCompoundVariantProps", args |-> <<c, a>>,
                result |-> Pending] : c \in CompoundInputs, a \in ActiveInputs}

CallResolveCompoundVariantProps ==
  /\ call.fn = "resolveCompoundVariantProps" /\ call.result = Pending
  /\ call' = [call EXCEPT
                !.result = resolveCompoundVariantProps(call.args[1], call.args[2])]
  /\ UNCHANGED tree

NextCompound == CallResolveCompoundVariantProps

SpecCompound == InitCompound /\ [][NextCompound]_vars

----------------------------------------------------------------------------
(* Direct calls of resolveVariantProps *)

\* the fragment a VariantTable holds for one token of one axis
Fragment(axis, token) ==
  Obj(<< <<"className", Word(axis \o "-" \o token)>>,
         <<"data-" \o axis, Word(token)>> >>)

AxisTable(axis, tokens) ==
  Obj([i \in 1..Len(tokens) |-> <<tokens[i], Fragment(axis, tokens[i])>>])

\* VariantTables: none, empty, string tokens, boolean tokens, a boolean axis
\* that declares only "true", a token declared without a fragment
VariantTables ==
  {Undefined, EmptyObj,
   Obj(<< <<"size", AxisTable("size", <<"sm", "lg">>)>> >>),
   Obj(<< <<"disabled", AxisTable("disabled", <<"true">>)>> >>),
   Obj(<< <<"size", AxisTable("size", <<"sm", "lg">>)>>,
          <<"disabled", AxisTable("disabled", <<"true", "false">>)>> >>),
   Obj(<< <<"disabled", AxisTable("disabled", <<"false", "true">>)>>,
          <<"size", Put(AxisTable("size", <<"lg">>), "sm", Null)>> >>)}

\* ActiveSelections with known and unknown tokens and an axis no table declares
SelectionInputs ==
  WithOptional(WithOptional(WithOptional({EmptyObj},
    "color", {Word("red")}),
    "size", {Word("sm"), Word("lg"), Word("xl")}),
    "disabled", {True, False, Word("true")})

InitVariants ==
  /\ tree = <<>>
  /\ call \in {[fn |-> "resolveVariantProps", args |-> <<v, a>>,
                result |-> Pending] : v \in VariantTables, a \in SelectionInputs}

CallResolveVariantProps ==
  /\ call.fn = "resolveVariantProps" /\ call.result = Pending
  /\ call' = [call EXCEPT
                !.result = resolveVariantProps(call.args[1], call.args[2])]
  /\ UNCHANGED tree

NextVariants == CallResolveVariantProps

SpecVariants == InitVariants /\ [][NextVariants]_vars

\* calls with tables whose axes set the same props: every order of
\* declaration against every order of selection
CollidingAxes == {"tone", "size", "shape"}

DeclaredTokens(axis) ==
  CASE axis = "tone" -> <<"a", "b">>
    [] axis = "size" -> <<"sm", "lg">>
    [] axis = "shape" -> <<"round">>

\* the tokens a selection can hold: the declared ones and, for size, one more
SelectableTokens(axis) ==
  SeqRange(DeclaredTokens(axis)) \cup (IF axis = "size" THEN {"xl"} ELSE {})

\* every fragment sets id; the fragments of tone and size also set title
CollidingFragment(axis, token) ==
  Obj(<< <<"id", Word(axis \o "-" \o token)>> >>
      \o (IF axis = "shape" THEN <<>>
          ELSE << <<"title", Word(axis \o "-" \o token)>> >>))

AxisOrders ==
  UNION {{o \in [1..len -> CollidingAxes] :
            \A i, j \in 1..len : o[i] = o[j] => i = j} : len \in 0..3}

CollidingTables ==
  {Obj([i \in 1..Len(o) |->
          <<o[i], Obj([j \in 1..Len(DeclaredTokens(o[i])) |->
                         <<DeclaredTokens(o[i])[j],
                           CollidingFragment(o[i], DeclaredTokens(o[i])[j])>>])>>]) :
     o \in {o \in AxisOrders : Len(o) >= 2}}

OrderedSelections ==
  UNION {{Obj([i \in 1..Len(o) |-> <<o[i], Word(t[i])>>]) :
            t \in {t \in [1..Len(o) -> UNION {SelectableTokens(a) : a \in CollidingAxes}] :
                     \A i \in 1..Len(o) : t[i] \in SelectableTokens(o[i])}} :
         o \in AxisOrders}

InitCollide ==
  /\ tree = <<>>
  /\ call \in {[fn |-> "resolveVariantProps", args |-> <<v, a>>,
                result |-> Pending] : v \in CollidingTables, a \in OrderedSelections}

SpecCollide == InitCollide /\ [][NextVariants]_vars

----------------------------------------------------------------------------
(* Direct calls of mergeFinalProps *)

\* the props fragments the sources are drawn from
FullFragment ==
  Obj(<< <<"id", Word("first")>>, <<"className", Str(<<"base", "p-2">>)>>,
         <<"style", Obj(<< <<"color", Word("red")>>, <<"padding", <<"number", 2>>>> >>)>>,
         <<"onClick", Fn(<<"h1">>)>> >>)

OtherFragment ==
  Obj(<< <<"onClick", Fn(<<"h2">>)>>, <<"id", Word("second")>>,
         <<"className", Str(<<"p-4", "text-sm">>)>>,
         <<"style", Obj(<< <<"padding", <<"number", 4>>>> >>)>> >>)

UndefinedFragment ==
  Obj(<< <<"id", Undefined>>, <<"className", Undefined>>, <<"style", Undefined>>,
         <<"onClick", Undefined>>, <<"title", Undefined>> >>)

EmptyFragment == Obj(<< <<"className", Str(<<>>)>>, <<"style", EmptyObj>> >>)

NullFragment ==
  Obj(<< <<"className", Null>>, <<"style", Null>>, <<"id", Null>> >>)

FalseFragment ==
  Obj(<< <<"className", False>>, <<"onClick", Word("not-a-function")>> >>)

AnimatedFragment ==
  Obj(<< <<"style", <<"exotic", "animated">>>>, <<"onClick", Fn(<<"h3">>)>>,
         <<"onPress", Fn(<<"h4">>)>> >>)

NestedFragment ==
  Obj(<< <<"style", Arr(<<Null, Obj(<< <<"margin", <<"number", 1>>>> >>), False>>)>>,
         <<"className", Word("text-lg")>> >>)

\* a style given as a function of the interaction state
PressableFragment ==
  Obj(<< <<"style", Fn(<<"pressedStyle">>)>>, <<"onPress", Fn(<<"h5">>)>> >>)

HoverableFragment == Obj(<< <<"style", Fn(<<"hoveredStyle">>)>> >>)

\* a style switched off with a condition that is false
FalseStyleFragment == Obj(<< <<"style", False>> >>)

PropsFragments ==
  {Undefined, EmptyObj, FullFragment, OtherFragment, UndefinedFragment,
   EmptyFragment, NullFragment, FalseFragment, AnimatedFragment, NestedFragment,
   PressableFragment, HoverableFragment, FalseStyleFragment}

SourceLists == UNION {[1..len -> PropsFragments] : len \in 0..MaxSources}

InitMerge ==
  /\ tree = <<>>
  /\ call \in {[fn |-> "mergeFinalProps", args |-> sources, result |-> Pending] :
                 sources \in SourceLists}

CallMergeFinalProps ==
  /\ call.fn = "mergeFinalProps" /\ call.result = Pending
  /\ call' = [call EXCEPT !.result = mergeFinalProps(call.args)]
  /\ UNCHANGED tree

NextMerge == CallMergeFinalProps

SpecMerge == InitMerge /\ [][NextMerge]_vars

----------------------------------------------------------------------------
(* Direct calls of mergeStyles *)

PaddingStyle == Obj(<< <<"padding", <<"number", 2>>>>, <<"color", Word("red")>> >>)

MarginStyle == Obj(<< <<"padding", <<"number", 4>>>>, <<"margin", <<"number", 1>>>> >>)

\* styles mergeStyles must not copy: an animated style object, a style that
\* carries the animated marker, a proxy that throws when it is read
AnimatedStyle == <<"exotic", "animated">>

MarkedStyle == Obj(<< <<"_requiresAnimatedComponent", True>> >>)

ProxyStyle == <<"proxy", "sharedValue">>

StyleInputs ==
  {Undefined, Null, False, EmptyObj, PaddingStyle, MarginStyle,
   AnimatedStyle, MarkedStyle, ProxyStyle, <<"number", 7>>,
   Arr(<<>>), Arr(<<Null, False, Undefined>>), Arr(<<Null, Arr(<<PaddingStyle>>)>>),
   Arr(<<EmptyObj, Arr(<<False>>), EmptyObj>>), Arr(<<AnimatedStyle, MarginStyle>>)}

StyleLists == UNION {[1..len -> StyleInputs] : len \in 0..MaxStyles}

InitStyles ==
  /\ tree = <<>>
  /\ call \in {[fn |-> "mergeStyles", args |-> styles, result |-> Pending] :
                 styles \in StyleLists}

CallMergeStyles ==
  /\ call.fn = "mergeStyles" /\ call.result = Pending
  /\ call' = [call EXCEPT !.result = mergeStyles(call.args)]
  /\ UNCHANGED tree

NextStyles == CallMergeStyles

SpecStyles == InitStyles /\ [][NextStyles]_vars

----------------------------------------------------------------------------
(* Notions the properties are stated with *)

Nodes == 1..Len(tree)

Bound(n) == typeof(Component(tree[n].type).context) = "context"

ContextOf(n) == Component(tree[n].type).context

SchemaKeys(n) == KeySet(ContextOf(n)[2].variantKeys)

\* the axes of the component's own VariantTable
OwnAxes(n) ==
  IF typeof(Component(tree[n].type).variants) = "object"
  THEN KeySet(Component(tree[n].type).variants) ELSE {}

\* the axes for which the element carries an explicit, defined prop
ExplicitAxes(n) ==
  {k \in KeySet(tree[n].props) : k \in OwnAxes(n) /\ Get(tree[n].props, k) # Undefined}

DefaultsOf(n) ==
  IF typeof(Component(tree[n].type).defaultVariants) = "object"
  THEN Component(tree[n].type).defaultVariants ELSE EmptyObj

RECURSIVE ProperAncestors(_)
ProperAncestors(n) ==
  IF tree[n].parent = 0 THEN {}
  ELSE {tree[n].parent} \cup ProperAncestors(tree[n].parent)

----------------------------------------------------------------------------
(* C1: a styled component wraps its node in its context's provider if and
   only if it is bound to a context and (it received a prop naming an axis of
   its own VariantTable with a value other than undefined, or its
   defaultVariants map is non-empty); without a context, never. *)
C1_RootElection ==
  \A n \in Nodes :
     /\ tree[n].provider <=>
          (Bound(n) /\ (ExplicitAxes(n) # {} \/ Entries(DefaultsOf(n)) # <<>>))
     /\ ~Bound(n) => ~tree[n].provider

\* one tree shows the four cases: elected by a prop, elected by defaults only,
\* not elected although a prop names the axis (undefined), unbound with both
C1_Witness ==
  /\ \E n \in Nodes : tree[n].provider /\ ExplicitAxes(n) # {}
                      /\ Entries(DefaultsOf(n)) = <<>>
  /\ \E n \in Nodes : tree[n].provider /\ ExplicitAxes(n) = {}
  /\ \E n \in Nodes : ~tree[n].provider /\ Bound(n)
                      /\ HasKey(tree[n].props, "variant")

(* C2: the value bound by a provider a styled component creates contains only
   axes of the context's schema; a local variant, set by a prop or by
   defaultVariants, is applied to the component's own props and appears in no
   ambient value read by a descendant. *)
C2_LocalVariantsStayLocal ==
  \A n \in Nodes :
     /\ tree[n].provider => KeySet(tree[n].value) \subseteq SchemaKeys(n)
     /\ Bound(n) => KeySet(tree[n].contextVariants) \subseteq SchemaKeys(n)
     /\ Bound(n) =>
          \A k \in (ExplicitAxes(n) \cup KeySet(DefaultsOf(n))) \ SchemaKeys(n) :
             /\ HasKey(tree[n].activeVariants, k)
             /\ \A d \in Nodes :
                  (n \in ProperAncestors(d) /\ Bound(d) /\ ContextOf(d) = ContextOf(n))
                    => ~HasKey(tree[d].contextVariants, k)

\* a provider whose component has the local axis spacing active, once from a
\* prop and once from a default, applied to its own class names, with a child
C2_Witness ==
  /\ \E n, d \in Nodes :
        /\ tree[d].parent = n /\ tree[n].provider /\ ContextOf(d) = ContextOf(n)
        /\ "spacing" \in ExplicitAxes(n)
        /\ "p-4" \in SeqRange(Get(tree[n].finalProps, "className")[2])
        /\ HasKey(tree[d].contextVariants, "variant")
  /\ \E n, d \in Nodes :
        /\ tree[d].parent = n /\ tree[n].provider /\ ContextOf(d) = ContextOf(n)
        /\ "spacing" \notin ExplicitAxes(n)
        /\ HasKey(DefaultsOf(n), "spacing")
        /\ "p-2" \in SeqRange(Get(tree[n].finalProps, "className")[2])

(* C3: ActiveSelections takes for each axis the explicit prop (axis declared
   by the component, value not undefined), otherwise the ambient context
   value, otherwise the defaultVariants value; an axis supplied by none of the
   three is absent. *)
C3_SelectionPrecedence ==
  \A n \in Nodes :
     LET ambient == IF Bound(n) THEN useContext(tree, ContextOf(n), tree[n].parent)
                    ELSE Null
         inAmbient(k) == typeof(ambient) = "object" /\ HasKey(ambient, k)
         supplied == ExplicitAxes(n) \cup KeySet(DefaultsOf(n))
                       \cup (IF typeof(ambient) = "object" THEN KeySet(ambient) ELSE {})
     IN /\ KeySet(tree[n].activeVariants) = supplied
        /\ \A k \in supplied :
             Get(tree[n].activeVariants, k) =
               IF k \in ExplicitAxes(n) THEN Get(tree[n].props, k)
               ELSE IF inAmbient(k) THEN Get(ambient, k)
               ELSE Get(DefaultsOf(n), k)

\* a node whose axis has a default, an ambient value and a prop, all different,
\* and a node that keeps the ambient value over its default
C3_Witness ==
  /\ \E n \in Nodes :
        /\ "variant" \in ExplicitAxes(n)
        /\ HasKey(tree[n].contextVariants, "variant")
        /\ HasKey(DefaultsOf(n), "variant")
        /\ Get(tree[n].props, "variant") # Get(tree[n].contextVariants, "variant")
        /\ Get(tree[n].props, "variant") # Get(DefaultsOf(n), "variant")
        /\ Get(tree[n].contextVariants, "variant") # Get(DefaultsOf(n), "variant")
  /\ \E n \in Nodes :
        /\ "variant" \notin ExplicitAxes(n)
        /\ HasKey(tree[n].contextVariants, "variant")
        /\ HasKey(DefaultsOf(n), "variant")
        /\ Get(tree[n].contextVariants, "variant") # Get(DefaultsOf(n), "variant")
        /\ Get(tree[n].activeVariants, "variant") = Get(tree[n].contextVariants, "variant")

----------------------------------------------------------------------------
(* The four sources of a node's final props, least specific first *)

Sources(n) ==
  <<Component(tree[n].type).base, tree[n].variantResolvedProps,
    tree[n].compoundResolvedProps, tree[n].directProps>>

Supplies(source, k) ==
  typeof(source) = "object" /\ HasKey(source, k) /\ Get(source, k) # Undefined

Suppliers(n, k) == {i \in 1..4 : Supplies(Sources(n)[i], k)}

SuppliedKeys(n) ==
  UNION {IF typeof(Sources(n)[i]) = "object"
         THEN {k \in KeySet(Sources(n)[i]) : Supplies(Sources(n)[i], k)}
         ELSE {} : i \in 1..4}

MostSpecific(n, k) ==
  Get(Sources(n)[CHOOSE i \in Suppliers(n, k) : \A j \in Suppliers(n, k) : j <= i], k)

\* the values the sources supply for k, least specific first
RECURSIVE SuppliedFrom(_, _, _)
SuppliedFrom(n, k, i) ==
  IF i > 4 THEN <<>>
  ELSE (IF Supplies(Sources(n)[i], k) THEN <<Get(Sources(n)[i], k)>> ELSE <<>>)
       \o SuppliedFrom(n, k, i + 1)

Composable(n, k) ==
  \/ k \in {"style", "className"}
  \/ \E i \in Suppliers(n, k) : isFunction(Get(Sources(n)[i], k))

(* C4 as stated: for any prop key supplied by more than one of the four
   sources, the value of the most specific source (direct over compound over
   variant over base) is the final value. *)
C4_MostSpecificWinsEveryKey ==
  \A n \in Nodes : \A k \in SuppliedKeys(n) :
     Cardinality(Suppliers(n, k)) >= 2 =>
        Get(tree[n].finalProps, k) = MostSpecific(n, k)

(* C4 amended: the final props merge base, variant-resolved, compound-resolved
   and direct props in that order; for a key other than style and className
   for which no source supplies a function, the defined value of the most
   specific source wins; style values are merged by mergeStyles, className
   strings by cn and functions are composed, each in that source order. *)
C4_MergeOrder ==
  \A n \in Nodes :
     /\ KeySet(tree[n].finalProps) = SuppliedKeys(n)
     /\ \A k \in SuppliedKeys(n) :
          Get(tree[n].finalProps, k) =
            IF k = "style" THEN mergeStyles(SuppliedFrom(n, k, 1))
            ELSE IF k = "className" THEN cn(SuppliedFrom(n, k, 1))
            ELSE IF Composable(n, k) THEN composeFunctions(SuppliedFrom(n, k, 1))
            ELSE MostSpecific(n, k)

\* one node gets id from all four sources and keeps the direct value; another
\* gets it from base, variant and compound and keeps the compound value
C4_Witness ==
  /\ \E n \in Nodes :
        /\ Suppliers(n, "id") = {1, 2, 3, 4}
        /\ Get(tree[n].finalProps, "id") = Word("direct-id")
  /\ \E n \in Nodes :
        /\ Suppliers(n, "id") = {1, 2, 3}
        /\ Get(tree[n].finalProps, "id") = Word("compound-id")
        /\ Get(tree[n].variantResolvedProps, "id") = Word("variant-id")

----------------------------------------------------------------------------
(* Chains and subtrees *)

\* the nearest ancestor-or-self of n with an explicit, defined prop for axis k,
\* 0 when there is none
RECURSIVE NearestExplicit(_, _)
NearestExplicit(n, k) ==
  IF n = 0 THEN 0
  ELSE IF k \in ExplicitAxes(n) THEN n
  ELSE NearestExplicit(tree[n].parent, k)

\* n and all its ancestors are bound to context A, declare the axis and have
\* no defaultVariants
PlainChainTo(n, k) ==
  \A m \in {n} \cup ProperAncestors(n) :
     /\ ContextOf(m) = ContextA
     /\ k \in OwnAxes(m)
     /\ Entries(DefaultsOf(m)) = <<>>

ClassWords(n) ==
  IF typeof(Get(tree[n].finalProps, "className")) = "string"
  THEN SeqRange(Get(tree[n].finalProps, "className")[2]) ELSE {}

\* the class the variant axis contributes for value v
VariantClass(v) ==
  CASE v = Word("a") -> "variant-a"
    [] v = Word("b") -> "variant-b"
    [] v = Word("c") -> "variant-c"

(* C5: in a chain of components bound to one context, all declaring the axis
   and none having defaultVariants, every node resolves for the axis the
   value of the explicit prop of its nearest ancestor-or-self that received
   one (and nothing when there is none), at any depth of override. *)
C5_OverrideCascades ==
  \A n \in Nodes :
     PlainChainTo(n, "variant") =>
        LET e == NearestExplicit(n, "variant")
        IN IF e = 0
           THEN /\ ~HasKey(tree[n].activeVariants, "variant")
                /\ ClassWords(n) \cap {"variant-a", "variant-b", "variant-c"} = {}
           ELSE /\ Get(tree[n].activeVariants, "variant") = Get(tree[e].props, "variant")
                /\ ClassWords(n) \cap {"variant-a", "variant-b", "variant-c"}
                     = {VariantClass(Get(tree[e].props, "variant"))}

\* N1(variant=a) > N2 > N3(variant=b) > N4 > N5
C5_Witness ==
  /\ Len(tree) = 5
  /\ \A n \in 1..5 : tree[n].parent = n - 1 /\ tree[n].type = "Node"
  /\ tree[1].props = PropsA /\ tree[3].props = PropsB
  /\ tree[2].props = NoProps /\ tree[4].props = NoProps /\ tree[5].props = NoProps
  /\ Get(tree[2].activeVariants, "variant") = Word("a")
  /\ Get(tree[4].activeVariants, "variant") = Word("b")
  /\ Get(tree[5].activeVariants, "variant") = Word("b")

\* no Provider of n's context lies strictly between ancestor a and n
NoNearerProvider(a, n) ==
  \A m \in ProperAncestors(n) :
     (a \in ProperAncestors(m) /\ Bound(m) /\ ContextOf(m) = ContextOf(n))
        => ~tree[m].provider

\* parent a elected by its defaults alone, descendant d inheriting axis k from it
InheritsDefault(a, d, k) ==
  /\ a \in ProperAncestors(d)
  /\ Bound(a) /\ Bound(d) /\ ContextOf(a) = ContextOf(d)
  /\ k \in SchemaKeys(a)
  /\ HasKey(DefaultsOf(a), k) /\ ExplicitAxes(a) = {}
  /\ k \in OwnAxes(d) /\ k \notin ExplicitAxes(d)
  /\ NoNearerProvider(a, d)

(* C6 as stated: a descendant of a parent elected by its defaultVariants
   alone, bound to the same context, declaring the axis, with no prop for it
   and no nearer provider, resolves the parent's default value. *)
C6_ChildResolvesParentDefault ==
  \A a, d \in Nodes :
     InheritsDefault(a, d, "variant") =>
        Get(tree[d].activeVariants, "variant") = Get(DefaultsOf(a), "variant")

(* C6 amended: such a parent still creates a provider, and the descendant
   resolves for an axis of the context's schema the value the parent itself
   resolved: the parent's default when the ambient value the parent read does
   not bind the axis, otherwise that ambient value. *)
C6_DefaultsPropagate ==
  \A a, d \in Nodes :
     InheritsDefault(a, d, "variant") =>
        /\ tree[a].provider
        /\ Get(tree[d].activeVariants, "variant") =
             IF HasKey(tree[a].contextVariants, "variant")
             THEN Get(tree[a].contextVariants, "variant")
             ELSE Get(DefaultsOf(a), "variant")

\* a top-level parent whose child resolves the default b with no prop anywhere,
\* in a tree where the child has no default of its own
C6_Witness ==
  \E a, d \in Nodes :
     /\ InheritsDefault(a, d, "variant")
     /\ tree[a].parent = 0 /\ tree[a].props = NoProps /\ tree[d].props = NoProps
     /\ Entries(DefaultsOf(d)) = <<>>
     /\ Get(tree[d].activeVariants, "variant") = Word("b")
     /\ "variant-b" \in ClassWords(d)

----------------------------------------------------------------------------
(* C7: two sibling subtrees under a common context-bound parent, each
   re-rooted with a different explicit value for the same axis, do not leak
   into each other: every descendant of one sibling resolves that sibling's
   value (up to a nearer override), and a direct child of the common parent
   outside both siblings still resolves the parent's value. *)
C7_SiblingIsolation ==
  \A s1 \in Nodes :
     (tree[s1].parent # 0 /\ "variant" \in ExplicitAxes(s1)) =>
        \A s2 \in Nodes \ {s1} :
           ( /\ tree[s2].parent = tree[s1].parent
             /\ "variant" \in ExplicitAxes(s2)
             /\ Get(tree[s1].props, "variant") # Get(tree[s2].props, "variant") )
           =>
           /\ \A d \in Nodes :
                (s1 \in ProperAncestors(d) /\ NearestExplicit(d, "variant") = s1)
                  => Get(tree[d].activeVariants, "variant") = Get(tree[s1].props, "variant")
           /\ \A o \in Nodes :
                (tree[o].parent = tree[s1].parent /\ "variant" \notin ExplicitAxes(o))
                  => Get(tree[o].activeVariants, "variant")
                       = Get(tree[tree[s1].parent].activeVariants, "variant")

\* root(a) > [ branchA(b) > itemA, branchB(c) > itemB, itemRoot ]
C7_Witness ==
  /\ Len(tree) = 6
  /\ tree[1].props = PropsA
  /\ tree[2].parent = 1 /\ tree[2].props = PropsB
  /\ tree[3].parent = 2 /\ tree[3].props = NoProps
  /\ tree[4].parent = 1 /\ tree[4].props = PropsC
  /\ tree[5].parent = 4 /\ tree[5].props = NoProps
  /\ tree[6].parent = 1 /\ tree[6].props = NoProps
  /\ Get(tree[3].activeVariants, "variant") = Word("b")
  /\ Get(tree[5].activeVariants, "variant") = Word("c")
  /\ Get(tree[6].activeVariants, "variant") = Word("a")

----------------------------------------------------------------------------
(* Rendering the ancestors of one context alone *)

\* the ancestors-or-self of n bound to context, outermost first
RECURSIVE ContextChain(_, _)
ContextChain(n, context) ==
  IF n = 0 THEN <<>>
  ELSE ContextChain(tree[n].parent, context)
         \o (IF Component(tree[n].type).context = context THEN <<n>> ELSE <<>>)

\* what the children of a rendered component read: the value it provides, or
\* the ambient value it read itself
AmbientBelow(r, ambient) == IF r.provider THEN r.value ELSE ambient

\* the render of the last node of chain when the chain is rendered with no
\* other component in between, under the ambient value given
RECURSIVE RenderAlone(_, _)
RenderAlone(chain, ambient) ==
  IF Len(chain) = 1
  THEN StyledComponent(Component(tree[Head(chain)].type), ambient,
                       tree[Head(chain)].props)
  ELSE RenderAlone(Tail(chain),
         AmbientBelow(StyledComponent(Component(tree[Head(chain)].type), ambient,
                                      tree[Head(chain)].props),
                      ambient))

(* C8: ambient values of distinct context objects are independent channels:
   what a component bound to one context resolves is what it resolves when
   only the components bound to that context are rendered around it, whatever
   is provided under another context, nearer or not, with the same axis names. *)
C8_ContextsIndependent ==
  \A n \in {Len(tree)} \ {0} :   \* the node just rendered; earlier ones never change
     Bound(n) =>
        \E alone \in {RenderAlone(ContextChain(n, ContextOf(n)), Null)} :
           /\ tree[n].contextVariants = alone.contextVariants
           /\ tree[n].activeVariants = alone.activeVariants
           /\ tree[n].finalProps = alone.finalProps

\* A provides variant=a, a nearer B provider binds variant=b, the A-bound
\* grandchild resolves a
C8_Witness ==
  \E n \in Nodes :
     /\ tree[n].parent # 0 /\ tree[tree[n].parent].parent # 0
     /\ ContextOf(n) = ContextA /\ tree[n].props = NoProps
     /\ ContextOf(tree[n].parent) = ContextB
     /\ tree[tree[n].parent].provider
     /\ Get(tree[tree[n].parent].value, "variant") = Word("b")
     /\ ContextOf(tree[tree[n].parent].parent) = ContextA
     /\ Get(tree[tree[tree[n].parent].parent].value, "variant") = Word("a")
     /\ Get(tree[n].activeVariants, "variant") = Word("a")

----------------------------------------------------------------------------
\* bound, no defined prop names an own axis, no defaults
PassThrough(n) ==
  Bound(n) /\ ExplicitAxes(n) = {} /\ Entries(DefaultsOf(n)) = <<>>

(* C9: a context-bound component that receives no variant props and has no
   (or an empty) defaultVariants map introduces no provider layer: each of its
   descendants reads exactly the ambient value the component itself read,
   through any number of such pass-through levels. *)
C9_PassThrough ==
  \A n \in Nodes :
     PassThrough(n) =>
        /\ ~tree[n].provider
        /\ \A d \in Nodes :
             ( /\ n \in ProperAncestors(d)
               /\ Bound(d) /\ ContextOf(d) = ContextOf(n)
               /\ \A m \in ProperAncestors(d) :
                    n \in ProperAncestors(m) => PassThrough(m) )
             => tree[d].contextVariants = tree[n].contextVariants

\* a provider, three pass-through levels below it, and a fifth node that
\* reads the provider's value through them
C9_Witness ==
  /\ Len(tree) = 5
  /\ tree[1].provider /\ Get(tree[1].value, "variant") = Word("c")
  /\ \A n \in 2..4 : PassThrough(n) /\ tree[n].parent = n - 1
  /\ tree[3].type = "Label"
  /\ tree[5].parent = 4
  /\ tree[5].contextVariants = tree[1].value

----------------------------------------------------------------------------
(* Compound rules *)

Returned(fn) == call.fn = fn /\ call.result # Pending

RulesOf(compoundVariants) ==
  IF typeof(compoundVariants) = "array" THEN compoundVariants[2] ELSE <<>>

ConditionKeys(rule) == KeySet(rule) \ {"props"}

\* every non-props key of the rule is present in the selections with a
\* strictly equal value
StrictlyMatches(rule, active) ==
  \A k \in ConditionKeys(rule) : HasKey(active, k) /\ Get(active, k) = Get(rule, k)

RECURSIVE PropsOfMatching(_, _)
PropsOfMatching(rules, active) ==
  IF rules = <<>> THEN <<>>
  ELSE (IF StrictlyMatches(Head(rules), active)
        THEN <<Get(Head(rules), "props")>> ELSE <<>>)
       \o PropsOfMatching(Tail(rules), active)

(* C10: resolveCompoundVariantProps treats a rule as matching if and only if
   every non-props key of the rule is present in ActiveSelections with a
   strictly equal value; a rule with a condition on an axis absent from
   ActiveSelections never matches, whatever value the rule gives for it. *)
C10_StrictConjunction ==
  Returned("resolveCompoundVariantProps") =>
     call.result = mergeFinalProps(PropsOfMatching(RulesOf(call.args[1]), call.args[2]))

\* the positions of the rules the code takes as matching, ascending
MatchingRules(rules, active) ==
  {i \in 1..Len(rules) :
     \A k \in ConditionKeys(rules[i]) : Get(active, k) = Get(rules[i], k)}

RuleClass(i) == Get(RuleProps(i), "className")[2][1]

RECURSIVE ClassesOf(_, _, _)
ClassesOf(matching, i, len) ==
  IF i > len THEN <<>>
  ELSE (IF i \in matching THEN <<RuleClass(i)>> ELSE <<>>)
       \o ClassesOf(matching, i + 1, len)

Highest(S) == CHOOSE i \in S : \A j \in S : j <= i

(* C11: when several compound rules match the same ActiveSelections, every
   matching rule's fragment contributes, in declaration order: the class names
   of exactly the matching rules are in the result, in that order, the plain
   key id has the value of the last-declared matching rule, and when no rule
   matches the result is empty. *)
C11_AllMatchingRulesMerge ==
  Returned("resolveCompoundVariantProps") =>
     LET rules == RulesOf(call.args[1])
         matching == MatchingRules(rules, call.args[2])
     IN IF matching = {} THEN call.result = EmptyObj
        ELSE /\ KeySet(call.result) = {"className", "id"}
             /\ Get(call.result, "className")
                  = Str(ClassesOf(matching, 1, Len(rules)))
             /\ Get(call.result, "id") = Get(RuleProps(Highest(matching)), "id")

\* three rules, the first and the last match, the one between does not
C11_Witness ==
  /\ Returned("resolveCompoundVariantProps")
  /\ Len(RulesOf(call.args[1])) = 3
  /\ MatchingRules(RulesOf(call.args[1]), call.args[2]) = {1, 3}
  /\ ConditionKeys(RulesOf(call.args[1])[1]) # {}
  /\ ConditionKeys(RulesOf(call.args[1])[3]) # {}
  /\ Get(call.result, "className") = Str(<<"c1", "c3">>)
  /\ Get(call.result, "id") = Word("id3")

----------------------------------------------------------------------------
(* Single-axis variants *)

\* the token an active value is looked up under
Token(v) == IF typeof(v) = "boolean" THEN v[2] ELSE JoinWords(v[2])

\* the table declares the axis and holds a fragment under the value's token
HasFragment(table, axis, v) ==
  /\ typeof(table) = "object" /\ HasKey(table, axis)
  /\ typeof(Get(table, axis)) = "object"
  /\ HasKey(Get(table, axis), Token(v))
  /\ typeof(Get(Get(table, axis), Token(v))) = "object"

Contributing(table, active) ==
  {k \in KeySet(active) : HasFragment(table, k, Get(active, k))}

ResultClasses(result) ==
  IF typeof(Get(result, "className")) = "string"
  THEN SeqRange(Get(result, "className")[2]) ELSE {}

(* C12: resolveVariantProps contributes the fragment of an axis exactly when
   the axis is in ActiveSelections, the VariantTable declares it and holds a
   fragment under the token of the active value, a boolean being looked up
   under "true" or "false"; an unknown axis or token contributes nothing and
   no other token's fragment stands in for it. *)
C12_FragmentPerKnownToken ==
  Returned("resolveVariantProps") =>
     LET table == call.args[1]
         active == call.args[2]
         contributing == Contributing(table, active)
     IN /\ typeof(call.result) = "object"
        /\ ResultClasses(call.result) =
             {k \o "-" \o Token(Get(active, k)) : k \in contributing}
        /\ KeySet(call.result) \ {"className"} = {"data-" \o k : k \in contributing}
        /\ \A k \in contributing :
             Get(call.result, "data-" \o k) = Word(Token(Get(active, k)))

\* the table declares size and disabled; an undeclared axis, an unknown size
\* token and the boolean false are active: only disabled's "false" fragment
C12_Witness ==
  /\ Returned("resolveVariantProps")
  /\ KeySet(call.args[1]) = {"size", "disabled"}
  /\ Get(call.args[2], "disabled") = False
  /\ Get(call.args[2], "size") = Word("xl")
  /\ HasKey(call.args[2], "color")
  /\ KeySet(call.result) = {"className", "data-disabled"}
  /\ Get(call.result, "className") = Word("disabled-false")

----------------------------------------------------------------------------
(* Merging props *)

\* the source without the keys whose value is undefined
Defined(source) ==
  IF typeof(source) = "object"
  THEN Obj(SelectSeq(Entries(source), LAMBDA e : e[2] # Undefined))
  ELSE source

\* the values the sources hold for key k, undefined ones left out, in order
RECURSIVE ValuesFor(_, _)
ValuesFor(sources, k) ==
  IF sources = <<>> THEN <<>>
  ELSE (IF Supplies(Head(sources), k) THEN <<Get(Head(sources), k)>> ELSE <<>>)
       \o ValuesFor(Tail(sources), k)

(* C13: mergeFinalProps never lets an undefined value overwrite or clear a
   key: a source whose value for a key is undefined contributes nothing for
   it, so the result is the one obtained with those entries removed, it holds
   no undefined value, a key undefined in every source is absent, and the
   plain key id keeps the last value that is not undefined. *)
C13_UndefinedIsAbsent ==
  Returned("mergeFinalProps") =>
     /\ call.result = mergeFinalProps([i \in 1..Len(call.args) |-> Defined(call.args[i])])
     /\ \A k \in KeySet(call.result) :
          /\ Get(call.result, k) # Undefined
          /\ ValuesFor(call.args, k) # <<>>
     /\ ValuesFor(call.args, "id") # <<>> =>
          Get(call.result, "id")
            = ValuesFor(call.args, "id")[Len(ValuesFor(call.args, "id"))]

\* every key set by the first source survives a later source that holds
\* undefined for each of them
C13_Witness ==
  /\ Returned("mergeFinalProps")
  /\ call.args = <<FullFragment, UndefinedFragment>>
  /\ Get(call.result, "id") = Word("first")
  /\ Get(call.result, "className") = Str(<<"base", "p-2">>)
  /\ Get(call.result, "onClick") = Fn(<<"h1">>)
  /\ Get(call.result, "style") = Get(FullFragment, "style")
  /\ ~HasKey(call.result, "title")

\* the arguments of an invocation
ClickArgs == <<Word("event")>>

\* a value without the references of its objects: fields only
RECURSIVE Fields(_)
Fields(v) ==
  IF typeof(v) = "object"
  THEN Obj([i \in 1..Len(Entries(v)) |-> <<Entries(v)[i][1], Fields(Entries(v)[i][2])>>])
  ELSE IF typeof(v) = "array" THEN Arr([i \in 1..Len(v[2]) |-> Fields(v[2][i])])
  ELSE v

\* equal values, functions being compared by what an invocation does
SameValue(a, b) ==
  IF isFunction(a) /\ isFunction(b) THEN Invoke(a, ClickArgs) = Invoke(b, ClickArgs)
  ELSE Fields(a) = Fields(b)

\* equal field for field
SameProps(x, y) ==
  /\ KeySet(x) = KeySet(y)
  /\ \A k \in KeySet(x) : SameValue(Get(x, k), Get(y, k))

\* merging the merge of the first i sources with the remaining ones
MergedInTwoSteps(sources, i) ==
  mergeFinalProps(<<mergeFinalProps(SubSeq(sources, 1, i))>>
                    \o SubSeq(sources, i + 1, Len(sources)))

(* C14: mergeFinalProps is associative over its sources: for any three props
   fragments A, B and C, mergeFinalProps(mergeFinalProps(A, B), C) equals
   mergeFinalProps(A, B, C) field for field, style, className and function
   keys included, composed functions compared by the calls they make and the
   value they return. *)
C14_MergeAssociative ==
  (Returned("mergeFinalProps") /\ Len(call.args) = 3) =>
     SameProps(MergedInTwoSteps(call.args, 2), call.result)

----------------------------------------------------------------------------
(* Composed handlers *)

\* the functions the sources hold for key k, in source order
FunctionsFor(sources, k) == SelectSeq(ValuesFor(sources, k), isFunction)

AllKeys(sources) ==
  UNION {IF typeof(sources[i]) = "object" THEN KeySet(sources[i]) ELSE {} :
           i \in 1..Len(sources)}

\* what calling the functions one after the other does
RECURSIVE CallsInOrder(_, _)
CallsInOrder(functions, args) ==
  IF functions = <<>> THEN <<>>
  ELSE Invoke(Head(functions), args).calls \o CallsInOrder(Tail(functions), args)

\* the value under k is one callable for the functions the sources hold for
\* k: the function itself when there is one, otherwise a callable that calls
\* each once, in source order, with the arguments, and returns the last result
ComposedUnder(result, sources, k) ==
  LET functions == FunctionsFor(sources, k)
  IN /\ isFunction(Get(result, k))
     /\ Len(functions) = 1 => Get(result, k) = functions[1]
     /\ Invoke(Get(result, k), ClickArgs).calls = CallsInOrder(functions, ClickArgs)
     /\ Invoke(Get(result, k), ClickArgs).returns
          = Invoke(functions[Len(functions)], ClickArgs).returns

(* C15 as stated: when the same key holds a function in several sources,
   mergeFinalProps sets that key to one callable that calls those functions
   exactly once each in source order with the invocation's arguments and
   returns the return value of the last one; a key with a single function
   gets that function itself. *)
C15_ComposedUnderEveryKey ==
  Returned("mergeFinalProps") =>
     \A k \in AllKeys(call.args) :
        FunctionsFor(call.args, k) # <<>> => ComposedUnder(call.result, call.args, k)

(* C15 amended: the same holds for every key other than style; under the key
   style a function is a style value: it is handed to mergeStyles with the
   other styles, which returns a single one as it is and keeps several in a
   list, never composing them. *)
C15_HandlersComposed ==
  Returned("mergeFinalProps") =>
     /\ \A k \in AllKeys(call.args) \ {"style"} :
          FunctionsFor(call.args, k) # <<>> => ComposedUnder(call.result, call.args, k)
     /\ FunctionsFor(call.args, "style") # <<>> =>
          /\ Get(call.result, "style") = mergeStyles(ValuesFor(call.args, "style"))
          /\ Len(FunctionsFor(call.args, "style")) >= 2 =>
               typeof(Get(call.result, "style")) = "array"

\* onClick held by three sources and onPress by one: a closure calling h3,
\* h1, h2 and returning h2's result, and h4 itself
C15_Witness ==
  /\ Returned("mergeFinalProps")
  /\ call.args = <<AnimatedFragment, FullFragment, OtherFragment>>
  /\ Get(call.result, "onClick") = Closure(<<"h3", "h1", "h2">>)
  /\ Invoke(Get(call.result, "onClick"), ClickArgs).calls
       = << <<"h3", ClickArgs>>, <<"h1", ClickArgs>>, <<"h2", ClickArgs>> >>
  /\ Invoke(Get(call.result, "onClick"), ClickArgs).returns = HandlerResult("h2")
  /\ Get(call.result, "onPress") = Fn(<<"h4">>)

----------------------------------------------------------------------------
(* Merging styles *)

\* the elements left once nested arrays are opened and null, false and
\* undefined are dropped
RECURSIVE Leaves(_)
Leaves(styles) ==
  IF styles = <<>> THEN <<>>
  ELSE (IF Head(styles) \in {Undefined, Null, False} THEN <<>>
        ELSE IF typeof(Head(styles)) = "array" THEN Leaves(Head(styles)[2])
        ELSE <<Head(styles)>>)
       \o Leaves(Tail(styles))

(* C16: mergeStyles returns its input itself, the same reference and not a
   copy, whenever exactly one element remains after flattening nested arrays
   and skipping null, false and undefined, whether that element is a plain
   map or an exotic value. *)
C16_SingleStyleIsItself ==
  Returned("mergeStyles") =>
     (Len(Leaves(call.args)) = 1 => call.result = Leaves(call.args)[1])

\* a plain map left alone among skipped values and a nested array
C16_Witness ==
  /\ Returned("mergeStyles")
  /\ call.args = <<Null, Arr(<<Null, Arr(<<PaddingStyle>>)>>), Arr(<<Null, False, Undefined>>)>>
  /\ call.result = PaddingStyle
  /\ call.result # NewObject(PaddingStyle)

\* every element left is a plain map without keys
AllEmptyMaps(leaves) ==
  \A i \in 1..Len(leaves) : typeof(leaves[i]) = "object" /\ Entries(leaves[i]) = <<>>

(* C17: mergeStyles yields undefined, and no empty object, when it is called
   with no arguments, when every argument is null, false, undefined or an
   array holding only those, and when two or more plain maps are merged whose
   union has no keys, as in mergeStyles({}, {}). *)
C17_NothingToMergeIsUndefined ==
  Returned("mergeStyles") =>
     /\ Leaves(call.args) = <<>> => call.result = Undefined
     /\ (Len(Leaves(call.args)) >= 2 /\ AllEmptyMaps(Leaves(call.args)))
          => call.result = Undefined

\* two empty maps, one of them inside a nested array, and skipped values
C17_Witness ==
  /\ Returned("mergeStyles")
  /\ call.args = <<Arr(<<Null, False, Undefined>>), EmptyObj,
                   Arr(<<EmptyObj, Arr(<<False>>), EmptyObj>>)>>
  /\ Len(Leaves(call.args)) = 3
  /\ call.result = Undefined

(* C18: mergeStyles returns undefined whenever the merged result is empty,
   for any number of inputs: mergeStyles({}) with a single empty object
   returns undefined, as mergeStyles({}, {}) does. *)
C18_EmptyResultIsUndefined ==
  (Returned("mergeStyles")
     /\ Leaves(call.args) # <<>> /\ AllEmptyMaps(Leaves(call.args)))
    => call.result = Undefined

----------------------------------------------------------------------------
(* Class names *)

ClassStrings(sources) ==
  SelectSeq(ValuesFor(sources, "className"), LAMBDA v : typeof(v) = "string")

\* the className values that are neither undefined nor strings
OtherClassValues(sources) ==
  SelectSeq(ValuesFor(sources, "className"), LAMBDA v : typeof(v) # "string")

AllEmptyStrings(strings) == \A i \in 1..Len(strings) : strings[i] = Str(<<>>)

(* C19 as stated: mergeFinalProps emits no className key when every className
   supplied by its sources is empty or falsy; the output never has className
   set to an empty string or to a falsy value. *)
C19_NoFalsyClassName ==
  (Returned("mergeFinalProps")
     /\ \A i \in 1..Len(ValuesFor(call.args, "className")) :
           ~Truthy(ValuesFor(call.args, "className")[i]))
    => ~HasKey(call.result, "className")

(* C19 amended: mergeFinalProps emits no className key when every className
   supplied by its sources is undefined or an empty string, and never sets
   className to an empty string; a className that is neither undefined nor a
   string (null, false) is not a class name to the merge but a plain prop: the
   last such value is the output's className unless the class strings merge
   to a non-empty string, which then replaces it. *)
C19_NoEmptyClassName ==
  Returned("mergeFinalProps") =>
     LET strings == ClassStrings(call.args)
         others == OtherClassValues(call.args)
     IN /\ Get(call.result, "className") # Str(<<>>)
        /\ (AllEmptyStrings(strings) /\ others = <<>>)
             => ~HasKey(call.result, "className")
        /\ (AllEmptyStrings(strings) /\ others # <<>>)
             => Get(call.result, "className") = others[Len(others)]
        /\ ~AllEmptyStrings(strings)
             => Get(call.result, "className") = cn(strings)

\* an empty string, undefined and an empty string again: no className key
C19_Witness ==
  /\ Returned("mergeFinalProps")
  /\ call.args = <<EmptyFragment, UndefinedFragment, EmptyFragment>>
  /\ Len(ClassStrings(call.args)) = 2
  /\ ~HasKey(call.result, "className")

----------------------------------------------------------------------------
(* Unknown axes, unknown tokens, missing context values *)

\* no ancestor of n provides a value for n's context
NoProviderAbove(n) ==
  \A m \in ProperAncestors(n) :
     ~(tree[m].provider /\ Bound(m) /\ ContextOf(m) = ContextOf(n))

\* the props of n that name no axis of its VariantTable
UnknownAxisProps(n) == KeySet(tree[n].props) \ OwnAxes(n)

KnownTokens(n, axis) == KeySet(Get(Component(tree[n].type).variants, axis))

(* C20: the render pipeline raises no exception for an unknown axis name in
   props or in a compound condition, for an unknown value token of a known
   axis, for a context-bound component rendered with no enclosing provider,
   or for empty or undefined merge inputs: the render completes, the unknown
   axis prop stays an ordinary prop and selects nothing, the unknown token
   and the rule on an unknown axis contribute no fragment, the missing
   ambient value reads as no selections, and the direct props are all in the
   final props. *)
C20_NoExceptionOnUnknowns ==
  \A n \in Nodes :
     /\ tree[n].completed
     /\ \A k \in UnknownAxisProps(n) :
          /\ Get(tree[n].directProps, k) = Get(tree[n].props, k)
          /\ ~HasKey(tree[n].contextVariants, k) => ~HasKey(tree[n].activeVariants, k)
     /\ \A k \in OwnAxes(n) :
          (OwnAxes(n) = {k} /\ HasKey(tree[n].activeVariants, k)
             /\ Token(Get(tree[n].activeVariants, k)) \notin KnownTokens(n, k))
            => tree[n].variantResolvedProps = EmptyObj
     /\ "ghost-compound" \notin ClassWords(n)
     /\ (Bound(n) /\ NoProviderAbove(n)) => tree[n].contextVariants = EmptyObj
     /\ \A k \in KeySet(tree[n].directProps) \ {"className", "style"} :
          (Get(tree[n].directProps, k) # Undefined
             /\ ~isFunction(Get(tree[n].finalProps, k)))
            => Get(tree[n].finalProps, k) = Get(tree[n].directProps, k)

\* a top-level component without base, under no provider, given a prop that
\* names the unknown axis of its compound rule; below it one given an unknown
\* token, and below that one that inherits the unknown token
C20_Witness ==
  /\ Len(tree) = 3
  /\ \A n \in 1..3 : tree[n].type = "Odd" /\ tree[n].parent = n - 1
                      /\ tree[n].completed
  /\ tree[1].props = PropsGhost
  /\ tree[1].contextVariants = EmptyObj
  /\ tree[1].finalProps = PropsGhost
  /\ tree[2].props = PropsUnknownToken
  /\ tree[2].provider
  /\ tree[2].finalProps = EmptyObj
  /\ tree[3].props = NoProps
  /\ Get(tree[3].activeVariants, "variant") = Word("zzz")
  /\ tree[3].finalProps = EmptyObj

----------------------------------------------------------------------------
(* The objects a call writes to, and its inputs once it has returned *)

\* Object.assign given the flattened styles alone: the first one receives
\* the properties of the others
assignTarget_firstStyle(flattenedStyles) == 1

\* the argument of Object.assign that receives the properties: 0 is the
\* object literal of "Object.assign({}, ...flattenedStyles)", i > 0 the i-th
\* flattened style
assignTarget(flattenedStyles) == 0

\* the flattened styles as they are once mergeStyles has returned
stylesAfterMergeStyles(styles) ==
  LET flattenedStyles == flattenStyleInputs(styles, <<>>)
      shouldMergeAsObject ==
        \A i \in 1..Len(flattenedStyles) : isMergeableStyleObject(flattenedStyles[i])
      throws == \E i \in 1..Len(flattenedStyles) : typeof(flattenedStyles[i]) = "proxy"
      assigned == Len(flattenedStyles) >= 2 /\ shouldMergeAsObject /\ ~throws
  IN [i \in 1..Len(flattenedStyles) |->
        IF assigned /\ i = assignTarget(flattenedStyles)
        THEN Obj(Entries(objectAssign(flattenedStyles[i], flattenedStyles)))
        ELSE flattenedStyles[i]]

\* a style value read again after the call: its leaves, in the order
\* flattenStyleInput visits them, are the objects of the list leaves
RECURSIVE styleWithLeaves(_, _)
RECURSIVE stylesWithLeaves(_, _)
styleWithLeaves(style, leaves) ==
  IF style = Undefined \/ style = Null \/ style = False
  THEN [value |-> style, rest |-> leaves]
  ELSE IF typeof(style) = "array"
       THEN LET r == stylesWithLeaves(style[2], leaves)
            IN [value |-> Arr(r.value), rest |-> r.rest]
  ELSE [value |-> Head(leaves), rest |-> Tail(leaves)]

stylesWithLeaves(styles, leaves) ==
  IF styles = <<>> THEN [value |-> <<>>, rest |-> leaves]
  ELSE LET h == styleWithLeaves(Head(styles), leaves)
           t == stylesWithLeaves(Tail(styles), h.rest)
       IN [value |-> <<h.value>> \o t.value, rest |-> t.rest]

\* the entries of one source read again: the style values the loop pushed to
\* allStyles are the ones whose leaves mergeStyles was given
RECURSIVE entriesWithLeaves(_, _)
entriesWithLeaves(entries, leaves) ==
  IF entries = <<>> THEN [value |-> <<>>, rest |-> leaves]
  ELSE LET key == Head(entries)[1]
           value == Head(entries)[2]
           h == IF value # Undefined /\ key = "style" /\ Truthy(value)
                THEN styleWithLeaves(value, leaves)
                ELSE [value |-> value, rest |-> leaves]
           t == entriesWithLeaves(Tail(entries), h.rest)
       IN [value |-> << <<key, h.value>> >> \o t.value, rest |-> t.rest]

RECURSIVE sourcesWithLeaves(_, _)
sourcesWithLeaves(propSources, leaves) ==
  IF propSources = <<>> THEN <<>>
  ELSE IF typeof(Head(propSources)) # "object"
       THEN <<Head(propSources)>> \o sourcesWithLeaves(Tail(propSources), leaves)
  ELSE LET h == entriesWithLeaves(Entries(Head(propSources)), leaves)
       IN <<Obj(h.value)>> \o sourcesWithLeaves(Tail(propSources), h.rest)

\* the sources as they are once mergeFinalProps has returned: its loop writes
\* to finalProps, allStyles, allClassNames and functionsToCompose, which it
\* creates itself, and hands the styles of the sources to mergeStyles
sourcesAfterMergeFinalProps(propSources) ==
  sourcesWithLeaves(propSources,
    stylesAfterMergeStyles(mergeSources(EmptyAcc, propSources).allStyles))

\* the object the loop "activeVariants[key] = value" writes to: the object
\* literal the two spreads fill, not defaultVariants nor contextVariants
activeVariantsObject == "literal"

\* what one call of StyledComponent leaves behind of the objects it was given.
\* The fragments of the VariantTable and the props of the compound rules are
\* reachable by a write through their style objects only, which the resolved
\* props share with them.
afterStyledComponent(self, ambient, incomingProps) ==
  LET r == StyledComponent(self, ambient, incomingProps)
      sources == sourcesAfterMergeFinalProps(
                   <<self.base, r.variantResolvedProps, r.compoundResolvedProps,
                     r.directProps>>)
  IN [base |-> sources[1],
      variantResolvedProps |-> sources[2],
      compoundResolvedProps |-> sources[3],
      defaultVariants |-> IF activeVariantsObject = "defaultVariants"
                          THEN r.activeVariants ELSE self.defaultVariants,
      ambient |-> IF activeVariantsObject = "contextVariants"
                     /\ typeof(self.context) = "context" /\ typeof(ambient) = "object"
                  THEN r.activeVariants ELSE ambient]

----------------------------------------------------------------------------
(* Calls of mergeFinalProps and renders, with the inputs read again afterwards *)

MaxFrameNodes == 2

InitFrame ==
  /\ tree = <<>>
  /\ call \in {[fn |-> "none", args |-> <<>>, result |-> Undefined,
                after |-> Undefined]}
        \cup {[fn |-> "mergeFinalProps", args |-> sources, result |-> Pending,
               after |-> Pending] : sources \in SourceLists}

CallMergeFinalPropsFrame ==
  /\ call.fn = "mergeFinalProps" /\ call.result = Pending
  /\ call' = [call EXCEPT !.result = mergeFinalProps(call.args),
                          !.after = sourcesAfterMergeFinalProps(call.args)]
  /\ UNCHANGED tree

RenderFrame(p, type, props) ==
  /\ call.fn = "none"
  /\ p \in AttachPoints(tree)
  /\ \E r \in {StyledComponent(Component(type),
                               useVariants(tree, Component(type), p), props)} :
       tree' = Append(tree,
          [parent |-> p, type |-> type, props |-> props,
           after |-> afterStyledComponent(Component(type),
                       useVariants(tree, Component(type), p), props)] @@ r)
  /\ UNCHANGED call

NextFrame ==
  \/ CallMergeFinalPropsFrame
  \/ \E p \in 0..MaxFrameNodes, e \in Elements :
       Len(tree) < MaxFrameNodes /\ RenderFrame(p, e[1], e[2])

SpecFrame == InitFrame /\ [][NextFrame]_vars

----------------------------------------------------------------------------
(* C21: mergeFinalProps and the renders leave their inputs unchanged *)

\* what a render was given, as it was before the call
GivenTo(n) ==
  [base |-> Component(tree[n].type).base,
   variantResolvedProps |-> tree[n].variantResolvedProps,
   compoundResolvedProps |-> tree[n].compoundResolvedProps,
   defaultVariants |-> Component(tree[n].type).defaultVariants,
   ambient |-> useVariants(tree, Component(tree[n].type), tree[n].parent)]

(* C21: once a call of mergeFinalProps has returned, every source it was
   given, with every style map and array of styles in it, has the keys and
   values it had before the call, also when the result has other keys than
   any source; and after every render the component's base, its
   defaultVariants, the style objects of the fragments of its VariantTable
   and of its compound rules, and the ambient context value it read are what
   they were before the render. *)
C21_InputsUnchanged ==
  /\ Returned("mergeFinalProps") => call.after = call.args
  /\ \A n \in Nodes : tree[n].after = GivenTo(n)

\* three sources whose styles, one of them nested in an array, are merged
\* into a map none of the sources holds
C21_Witness ==
  /\ Returned("mergeFinalProps")
  /\ call.args = <<FullFragment, OtherFragment, NestedFragment>>
  /\ typeof(Get(call.result, "style")) = "object"
  /\ \A i \in 1..3 : Fields(Get(call.result, "style")) # Fields(Get(call.args[i], "style"))
  /\ call.after = call.args

----------------------------------------------------------------------------
(* C22: which props are variant selections and which are direct props *)

\* the selections the component starts from, before it reads its props
InitialSelections(n) ==
  initialActiveVariants(Component(tree[n].type), tree[n].contextVariants)

\* the prop k of element n is a variant selection
Consumed(n, k) == k \in OwnAxes(n) /\ Get(tree[n].props, k) # Undefined

(* C22: a prop of the element is a variant selection exactly when its key is
   an axis of the component's own VariantTable and its value is not
   undefined. A prop that is one sets the axis in the active selections, is
   not among the direct props, and its key is in the props of the created
   node only if base or a resolved fragment supplies it; a prop that is not
   one is among the direct props with its value, and leaves the active
   selections as defaults and context made them. *)
C22_VariantPropsConsumed ==
  \A n \in Nodes :
     /\ tree[n].hasVariantProps <=> \E k \in KeySet(tree[n].props) : Consumed(n, k)
     /\ \A k \in KeySet(tree[n].props) :
          IF Consumed(n, k)
          THEN /\ Get(tree[n].activeVariants, k) = Get(tree[n].props, k)
               /\ ~HasKey(tree[n].directProps, k)
               /\ HasKey(tree[n].finalProps, k)
                    => \E i \in 1..3 : Supplies(Sources(n)[i], k)
          ELSE /\ HasKey(tree[n].directProps, k)
               /\ Get(tree[n].directProps, k) = Get(tree[n].props, k)
               /\ HasKey(tree[n].activeVariants, k) <=> HasKey(InitialSelections(n), k)
               /\ Get(tree[n].activeVariants, k) = Get(InitialSelections(n), k)

\* an element given a boolean axis prop whose fragment sets the prop of the
\* same name, an undefined axis prop and an ordinary prop
C22_Witness ==
  \E n \in Nodes :
     /\ tree[n].type = "Switch" /\ tree[n].props = PropsOn
     /\ Get(tree[n].activeVariants, "disabled") = True
     /\ KeySet(tree[n].directProps) = {"loading", "title"}
     /\ Get(tree[n].directProps, "loading") = Undefined
     /\ ~HasKey(tree[n].activeVariants, "loading")
     /\ Get(tree[n].finalProps, "disabled") = True
     /\ Get(tree[n].variantResolvedProps, "disabled") = True
     /\ Get(tree[n].finalProps, "title") = Word("t")

----------------------------------------------------------------------------
(* C23: two axes whose fragments set the same prop *)

\* where the key k stands among the entries of an object
Position(obj, k) ==
  CHOOSE i \in 1..Len(Entries(obj)) : Entries(obj)[i][1] = k

FragmentOf(table, active, axis) ==
  Get(Get(table, axis), Token(Get(active, axis)))

\* the contributing axes whose fragment sets the prop k
Setting(table, active, k) ==
  {a \in Contributing(table, active) : Supplies(FragmentOf(table, active, a), k)}

\* the axis of S that comes last among the keys of obj
LastIn(obj, S) ==
  CHOOSE a \in S : \A b \in S : Position(obj, b) <= Position(obj, a)

PlainKeys(table, active) ==
  UNION {KeySet(FragmentOf(table, active, a)) : a \in Contributing(table, active)}
    \ {"className", "style"}

(* C23 as stated: when several contributing fragments set the same plain
   prop, the result holds the value of the axis the VariantTable declares
   last among them, whatever the order of the axes in ActiveSelections. *)
C23_TableOrderDecides ==
  Returned("resolveVariantProps") =>
     LET table == call.args[1]
         active == call.args[2]
     IN \A k \in PlainKeys(table, active) :
          Get(call.result, k) =
            Get(FragmentOf(table, active, LastIn(table, Setting(table, active, k))), k)

(* C23 amended: when several contributing fragments set the same plain prop,
   the result holds the value of the axis that comes last among them in
   ActiveSelections, whatever the order in which the VariantTable declares
   the axes. *)
C23_SelectionOrderDecides ==
  Returned("resolveVariantProps") =>
     LET table == call.args[1]
         active == call.args[2]
     IN \A k \in PlainKeys(table, active) :
          Get(call.result, k) =
            Get(FragmentOf(table, active, LastIn(active, Setting(table, active, k))), k)

\* the table declares tone, then size, then shape; the selections hold shape,
\* then size, then tone: id and title are those of tone, declared first
C23_Witness ==
  /\ Returned("resolveVariantProps")
  /\ ObjectKeys(call.args[1]) = <<"tone", "size", "shape">>
  /\ ObjectKeys(call.args[2]) = <<"shape", "size", "tone">>
  /\ Get(call.args[2], "tone") = Word("b")
  /\ Get(call.args[2], "size") = Word("lg")
  /\ Get(call.result, "id") = Word("tone-b")
  /\ Get(call.result, "title") = Word("tone-b")

----------------------------------------------------------------------------
(* C24: two or more styles are merged into one map or returned as a list *)

\* a value that passes the tests of isMergeableStyleObject: a plain object
\* without symbol keys, hidden or accessor properties and without the marker
PlainMap(v) ==
  typeof(v) \in {"object", "proxy"} /\ ~hasRequiresAnimatedComponentMarker(v)

\* a plain map whose properties can be read without an exception
Copyable(v) == PlainMap(v) /\ typeof(v) = "object"

UnionKeys(leaves) == UNION {KeySet(leaves[i]) : i \in 1..Len(leaves)}

\* the value of key k in the last element that has it
LastValue(leaves, k) ==
  Get(leaves[CHOOSE i \in 1..Len(leaves) :
               /\ HasKey(leaves[i], k)
               /\ \A j \in 1..Len(leaves) : HasKey(leaves[j], k) => j <= i], k)

IsUnionOf(result, leaves) ==
  /\ typeof(result) = "object"
  /\ KeySet(result) = UnionKeys(leaves)
  /\ \A k \in KeySet(result) : Get(result, k) = LastValue(leaves, k)

(* C24 as stated: with two or more elements after flattening, mergeStyles
   returns the left-to-right union of the elements, the later key winning,
   when all of them are plain mergeable maps, and the flattened list itself,
   in input order and with the elements as they were given, when any of them
   is not. *)
C24_UnionOrList ==
  (Returned("mergeStyles") /\ Len(Leaves(call.args)) >= 2) =>
     LET leaves == Leaves(call.args)
     IN IF \A i \in 1..Len(leaves) : PlainMap(leaves[i])
        THEN IsUnionOf(call.result, leaves)
        ELSE call.result = Arr(leaves)

(* C24 amended: with two or more elements after flattening, mergeStyles
   returns a new map that is the left-to-right union of the elements, the
   later key winning, when all of them are plain mergeable maps, copying them
   raises no exception and the union has a key, and undefined when the union
   has no key; it returns the flattened list itself, in input order and with
   the elements as they were given, when any element is not a plain
   mergeable map or copying raises an exception. No element of such a list
   is a merge of others. *)
C24_UnionUndefinedOrList ==
  (Returned("mergeStyles") /\ Len(Leaves(call.args)) >= 2) =>
     LET leaves == Leaves(call.args)
     IN IF \A i \in 1..Len(leaves) : Copyable(leaves[i])
        THEN IF UnionKeys(leaves) = {} THEN call.result = Undefined
             ELSE /\ IsUnionOf(call.result, leaves)
                  /\ call.result = NewObject(call.result)
        ELSE call.result = Arr(leaves)

\* two plain maps and an animated style nested in an array between them: the
\* four elements come back as they were given
C24_Witness ==
  /\ Returned("mergeStyles")
  /\ call.args = <<PaddingStyle, Arr(<<AnimatedStyle, MarginStyle>>), EmptyObj>>
  /\ call.result = Arr(<<PaddingStyle, AnimatedStyle, MarginStyle, EmptyObj>>)

----------------------------------------------------------------------------
(* C25: when the result of mergeFinalProps has a style *)

\* the defined style values of the sources, in source order
StylesOf(sources) == ValuesFor(sources, "style")

\* the ones mergeFinalProps hands to mergeStyles, and the ones it does not
MergedStyles(sources) == SelectSeq(StylesOf(sources), Truthy)

KeptStyles(sources) == SelectSeq(StylesOf(sources), LAMBDA v : ~Truthy(v))

EmptyStyle(v) ==
  v \in {Undefined, Null, False} \/ (typeof(v) = "object" /\ Entries(v) = <<>>)

(* C25 as stated: the result has a style only when the merge of the supplied
   styles is not empty; when every style the sources supply is undefined,
   null, false or an array that flattens to nothing, the result has no style
   key. *)
C25_NoStyleWhenNothingMerged ==
  Returned("mergeFinalProps") =>
     /\ Leaves(StylesOf(call.args)) = <<>> => ~HasKey(call.result, "style")
     /\ HasKey(call.result, "style") => ~EmptyStyle(Get(call.result, "style"))

(* C25 amended: only the truthy styles are merged. The result has no style
   key when every style the sources supply is undefined or an array that
   flattens to nothing, and when the merged styles are two or more plain
   maps whose union has no key and no source supplies a falsy style. A style
   of null or false is kept as an ordinary prop: when the merged styles
   flatten to nothing, the style of the result is the last null or false
   supplied. A single style left after flattening is the result's style as
   it is, an empty map included. *)
C25_StyleKey ==
  Returned("mergeFinalProps") =>
     LET leaves == Leaves(MergedStyles(call.args))
         kept == KeptStyles(call.args)
     IN /\ (leaves = <<>> /\ kept = <<>>) => ~HasKey(call.result, "style")
        /\ (leaves = <<>> /\ kept # <<>>)
             => /\ HasKey(call.result, "style")
                /\ Get(call.result, "style") = kept[Len(kept)]
        /\ (Len(leaves) >= 2 /\ kept = <<>>
              /\ \A i \in 1..Len(leaves) : Copyable(leaves[i]) /\ Entries(leaves[i]) = <<>>)
             => ~HasKey(call.result, "style")
        /\ Len(leaves) = 1 => Get(call.result, "style") = leaves[1]

\* styles of null, undefined and false: the result's style is false
C25_Witness ==
  /\ Returned("mergeFinalProps")
  /\ call.args = <<NullFragment, UndefinedFragment, FalseStyleFragment>>
  /\ Leaves(StylesOf(call.args)) = <<>>
  /\ HasKey(call.result, "style")
  /\ Get(call.result, "style") = False

----------------------------------------------------------------------------
(* withSlots *)

\* the keys the copying loop of a clone leaves out
SkippedKeys == {"prototype", "length", "name"}

\* forwardRef(...) with the enumerable own properties of component copied
\* to it and displayName set
ClonedComponent(component) ==
  LET displayName == Get(component.statics, "displayName")
      originalName == IF Truthy(displayName) THEN displayName
                      ELSE IF Truthy(component.name) THEN component.name
                      ELSE Word("Component")
      copied == Obj(SelectSeq(Entries(component.statics),
                              LAMBDA e : e[1] \notin SkippedKeys))
  IN [name |-> Undefined, statics |-> Put(copied, "displayName", originalName)]

\* the slots assigned to the component itself, decorated or not
withSlots_inPlace(heap, component, slots) ==
  [components |->
     [heap.components EXCEPT ![component].statics =
        Put(PutAll(@, Entries(slots)), "__slots", True)],
   decoratedComponents |-> heap.decoratedComponents \cup {component},
   returns |-> component]

\* withSlots(component, slots): heap holds the component objects and the
\* set decoratedComponents; returns is the component handed back
withSlots(heap, component, slots) ==
  LET decorated == component \in heap.decoratedComponents
      components == IF decorated
                    THEN Append(heap.components,
                                ClonedComponent(heap.components[component]))
                    ELSE heap.components
      target == IF decorated THEN Len(components) ELSE component
  IN [components |->
        [components EXCEPT ![target].statics =
           Put(PutAll(@, Entries(slots)), "__slots", True)],
      decoratedComponents |-> heap.decoratedComponents \cup {target},
      returns |-> target]

----------------------------------------------------------------------------
(* Sequences of withSlots calls *)

\* two function components of the application: one without static
\* properties, one with a displayName and a static property of its own
SlotBases ==
  << [name |-> Word("Root"), statics |-> EmptyObj],
     [name |-> Word("Base"),
      statics |-> Obj(<< <<"displayName", Word("CustomBase")>>,
                         <<"version", <<"number", 1>>>> >>)] >>

\* the slots objects the application passes
SlotMaps ==
  {EmptyObj,
   Obj(<< <<"Slot", Word("SlotV1")>> >>),
   Obj(<< <<"Slot", Word("SlotV2")>>, <<"B", Word("SlotB")>> >>),
   Obj(<< <<"prototype", Word("SlotP")>> >>)}

InitSlots ==
  /\ tree = <<>>
  /\ call = [fn |-> "withSlots", components |-> SlotBases,
             decoratedComponents |-> {}, returned |-> <<>>]

\* one call; returned records what was passed and what came back
CallWithSlots(component, slots) ==
  /\ call.fn = "withSlots"
  /\ component \in 1..Len(call.components)
  /\ \E r \in {withSlots(call, component, slots)} :
       call' = [call EXCEPT
                  !.components = r.components,
                  !.decoratedComponents = r.decoratedComponents,
                  !.returned = Append(@,
                     [component |-> r.returns, from |-> component,
                      decorated |-> component \in call.decoratedComponents,
                      before |-> call.components[component].statics,
                      slots |-> slots])]
  /\ UNCHANGED tree

NextSlots ==
  \E component \in 1..(Len(SlotBases) + MaxSlotCalls), slots \in SlotMaps :
     Len(call.returned) < MaxSlotCalls /\ CallWithSlots(component, slots)

SpecSlots == InitSlots /\ [][NextSlots]_vars

----------------------------------------------------------------------------
(* C26: the slots of the components withSlots returns *)

\* the static properties that are slots
SlotKeys(statics) == KeySet(statics) \ {"__slots", "displayName"}

\* the component has the slots of statics overlaid by those of slots
CarriesOverlay(component, statics, slots) ==
  /\ SlotKeys(component.statics) = SlotKeys(statics) \cup KeySet(slots)
  /\ \A k \in SlotKeys(component.statics) :
       Get(component.statics, k) =
         (IF HasKey(slots, k) THEN Get(slots, k) ELSE Get(statics, k))

WithoutSkipped(statics) ==
  Obj(SelectSeq(Entries(statics), LAMBDA e : e[1] \notin SkippedKeys))

ReturnedBySlots == 1..Len(call.returned)

(* C26 as stated: at every moment every component withSlots has returned has
   the static slots the component it was built from had at the call,
   overlaid by the slots passed in that call, and __slots true; a call on a
   decorated component returns a component that did not exist before. *)
C26_SlotsOverlaid ==
  call.fn = "withSlots" =>
     \A i \in ReturnedBySlots :
        LET r == call.returned[i]
        IN /\ CarriesOverlay(call.components[r.component], r.before, r.slots)
           /\ Get(call.components[r.component].statics, "__slots") = True
           /\ r.decorated =>
                /\ r.component # r.from
                /\ \A j \in 1..(i - 1) : call.returned[j].component # r.component

(* C26 amended: as stated, but a component built from a decorated one does
   not have the slots of that component that are named prototype, length or
   name. *)
C26_SlotsOverlaidButSkipped ==
  call.fn = "withSlots" =>
     \A i \in ReturnedBySlots :
        LET r == call.returned[i]
        IN /\ CarriesOverlay(call.components[r.component],
                             IF r.decorated THEN WithoutSkipped(r.before)
                             ELSE r.before,
                             r.slots)
           /\ Get(call.components[r.component].statics, "__slots") = True
           /\ r.decorated =>
                /\ r.component # r.from
                /\ \A j \in 1..(i - 1) : call.returned[j].component # r.component

\* L1 = withSlots(Base, { Slot: SlotV1 }), L2 = withSlots(L1, { Slot: SlotV2,
\* B }), L3 = withSlots(L1, { prototype }): three components, L1 still with
\* SlotV1 and without B
C26_Witness ==
  /\ call.fn = "withSlots"
  /\ Len(call.returned) = 3
  /\ call.returned[1].from = 2 /\ call.returned[1].component = 2
  /\ call.returned[2].from = 2 /\ call.returned[2].component = 3
  /\ call.returned[3].from = 2 /\ call.returned[3].component = 4
  /\ Get(call.components[2].statics, "Slot") = Word("SlotV1")
  /\ ~HasKey(call.components[2].statics, "B")
  /\ Get(call.components[3].statics, "Slot") = Word("SlotV2")
  /\ Get(call.components[3].statics, "B") = Word("SlotB")
  /\ Get(call.components[3].statics, "version") = <<"number", 1>>
  /\ Get(call.components[4].statics, "prototype") = Word("SlotP")
  /\ Get(call.components[4].statics, "Slot") = Word("SlotV1")

----------------------------------------------------------------------------
(* C27: a prop that names an axis of the schema the component does not declare *)

\* the props of n whose key is in the schema of its context and not in its
\* own VariantTable
ForeignAxisProps(n) ==
  IF Bound(n) THEN (KeySet(tree[n].props) \cap SchemaKeys(n)) \ OwnAxes(n) ELSE {}

\* the elements rendered directly under n
ChildrenOf(n) == {m \in Nodes : tree[m].parent = n}

(* C27: a prop whose key is an axis of the context's schema and no axis of
   the component's own VariantTable is a direct prop and reaches the node
   with its value; the active selections hold for that axis what defaults and
   context gave, the prop is no variant prop and the component is a provider
   only if it has another prop that is one or has defaults; the value it
   provides, and the ambient value its children read, hold for that axis
   what the component inherited, not the prop's value. *)
C27_SchemaAxisNotOwn ==
  \A n \in Nodes : \A k \in ForeignAxisProps(n) :
     /\ HasKey(tree[n].directProps, k)
     /\ Get(tree[n].directProps, k) = Get(tree[n].props, k)
     /\ Get(tree[n].finalProps, k) = Get(tree[n].props, k)
     /\ HasKey(tree[n].activeVariants, k) <=> HasKey(InitialSelections(n), k)
     /\ Get(tree[n].activeVariants, k) = Get(InitialSelections(n), k)
     /\ tree[n].hasVariantProps <=> ExplicitAxes(n) # {}
     /\ tree[n].provider => (ExplicitAxes(n) # {} \/ Entries(DefaultsOf(n)) # <<>>)
     /\ tree[n].provider =>
          /\ HasKey(tree[n].value, k) <=> HasKey(tree[n].contextVariants, k)
          /\ Get(tree[n].value, k) = Get(tree[n].contextVariants, k)
     /\ \A m \in ChildrenOf(n) :
          (Bound(m) /\ ContextOf(m) = ContextOf(n))
            => /\ HasKey(tree[m].contextVariants, k) <=> HasKey(tree[n].contextVariants, k)
               /\ Get(tree[m].contextVariants, k) = Get(tree[n].contextVariants, k)

\* under a provider of variant b, an element whose component declares
\* spacing alone is given variant c and spacing lg: it provides variant b,
\* and the element below it resolves variant b
C27_Witness ==
  /\ Len(tree) = 3
  /\ tree[1].type = "Node" /\ tree[1].props = PropsB
  /\ tree[2].type = "Spacer" /\ tree[2].props = PropsCLocal /\ tree[2].parent = 1
  /\ tree[3].type = "Node" /\ tree[3].props = NoProps /\ tree[3].parent = 2
  /\ Get(tree[2].finalProps, "variant") = Word("c")
  /\ ~HasKey(tree[2].finalProps, "spacing")
  /\ tree[2].provider
  /\ tree[2].value = Obj(<< <<"variant", Word("b")>> >>)
  /\ Get(tree[3].activeVariants, "variant") = Word("b")
  /\ "variant-b" \in ClassWords(3)

----------------------------------------------------------------------------
(* C28: what a provider hands on of the ambient value it read *)

(* C28: the value a component provides holds every axis of the ambient value
   it read, with the value read for each axis the element has no explicit
   variant prop for and with the prop's value for the others; a component
   that provides because of its defaults alone hands every axis it read on
   unchanged. *)
C28_InheritedAxesKept ==
  \A n \in Nodes :
     tree[n].provider =>
        /\ \A k \in KeySet(tree[n].contextVariants) :
             /\ HasKey(tree[n].value, k)
             /\ Get(tree[n].value, k) =
                  (IF k \in ExplicitAxes(n) THEN Get(tree[n].props, k)
                   ELSE Get(tree[n].contextVariants, k))
        /\ ExplicitAxes(n) = {} =>
             \A k \in KeySet(tree[n].contextVariants) :
                Get(tree[n].value, k) = Get(tree[n].contextVariants, k)

\* a component whose default for variant is b, rendered without props under
\* a provider of variant a: it provides variant a
C28_Witness ==
  \E n \in Nodes :
     /\ tree[n].type = "Defaulted" /\ tree[n].props = NoProps
     /\ Get(DefaultsOf(n), "variant") = Word("b")
     /\ tree[n].contextVariants = Obj(<< <<"variant", Word("a")>> >>)
     /\ tree[n].provider
     /\ tree[n].value = Obj(<< <<"variant", Word("a")>> >>)
     /\ \E m \in Nodes :
          /\ tree[m].parent = n
          /\ tree[m].contextVariants = Obj(<< <<"variant", Word("a")>> >>)

----------------------------------------------------------------------------
(* C29: a function and a value that is none under the same key *)

\* the defined values the sources hold for k that are no functions
OtherValuesFor(sources, k) ==
  SelectSeq(ValuesFor(sources, k), LAMBDA v : ~isFunction(v))

(* C29: for every key other than style for which a source holds a function,
   the result holds a function that makes the calls of the functions the
   sources hold for the key, in source order, and nothing else: a defined
   value that is no function, held for the same key by any source, a later
   one included, is not the result's value and changes nothing of it. *)
C29_FunctionsOutlastValues ==
  Returned("mergeFinalProps") =>
     \A k \in AllKeys(call.args) \ {"style"} :
        FunctionsFor(call.args, k) # <<>> =>
           /\ isFunction(Get(call.result, k))
           /\ Invoke(Get(call.result, k), ClickArgs).calls
                = CallsInOrder(FunctionsFor(call.args, k), ClickArgs)
           /\ \A i \in 1..Len(OtherValuesFor(call.args, k)) :
                Get(call.result, k) # OtherValuesFor(call.args, k)[i]
           /\ SameValue(Get(call.result, k),
                        Get(mergeFinalProps(
                              [i \in 1..Len(call.args) |->
                                 IF typeof(call.args[i]) = "object"
                                 THEN Obj(SelectSeq(Entries(call.args[i]),
                                        LAMBDA e : e[1] # k \/ isFunction(e[2])))
                                 ELSE call.args[i]]), k))

\* onClick is a function in the first two sources and a string in the last
C29_Witness ==
  /\ Returned("mergeFinalProps")
  /\ call.args = <<FullFragment, OtherFragment, FalseFragment>>
  /\ Get(call.args[3], "onClick") = Word("not-a-function")
  /\ Get(call.result, "onClick") = Closure(<<"h1", "h2">>)

----------------------------------------------------------------------------
(* C30: an axis without an active value, and the value false *)

\* the axes of n's VariantTable that hold a fragment under the token false
FalseAxes(n) ==
  {k \in OwnAxes(n) :
     typeof(Get(Get(Component(tree[n].type).variants, k), "false")) = "object"}

\* the class the fragment under false of axis k sets
FalseClass(n, k) ==
  Get(Get(Get(Component(tree[n].type).variants, k), "false"), "className")[2][1]

\* the compound rules of n whose conditions are all false
FalseRules(n) ==
  IF typeof(Component(tree[n].type).compoundVariants) = "array"
  THEN {r \in SeqRange(Component(tree[n].type).compoundVariants[2]) :
          \A k \in KeySet(r) \ {"props"} : Get(r, k) = False}
  ELSE {}

\* the class the props of a rule set
RuleClassOf(r) == Get(Get(r, "props"), "className")[2][1]

\* false by a prop, and false by a default that no ambient value overrides,
\* give the same selections and the same props
SamePropsForFalse ==
  \A n, m \in Nodes :
     (/\ tree[n].type = "Switch" /\ tree[n].props = PropsOff
      /\ tree[m].type = "SwitchOff" /\ tree[m].props = NoProps
      /\ ~HasKey(tree[m].contextVariants, "disabled")
      /\ tree[n].contextVariants = tree[m].contextVariants)
       => /\ tree[n].activeVariants = tree[m].activeVariants
          /\ tree[n].finalProps = tree[m].finalProps

(* C30 as stated: the fragment under the token false is contributed, and a
   compound condition of false is satisfied, only when the active value of
   the axis is the boolean false, never when the axis has no active value;
   an element given false by a prop and one given false by its defaults have
   the same props. *)
C30_OnlyBooleanFalse ==
  /\ \A n \in Nodes :
       /\ \A k \in FalseAxes(n) :
            FalseClass(n, k) \in ClassWords(n) => Get(tree[n].activeVariants, k) = False
       /\ \A r \in FalseRules(n) :
            RuleClassOf(r) \in ClassWords(n)
              => \A k \in KeySet(r) \ {"props"} : Get(tree[n].activeVariants, k) = False
  /\ SamePropsForFalse

(* C30 amended: the fragment under the token false is contributed exactly
   when the active value of the axis is the boolean false or the string
   "false", and a compound condition of false is satisfied exactly when the
   active value is the boolean false; neither happens when the axis has no
   active value; an element given false by a prop and one given false by its
   defaults have the same props. *)
C30_FalseOrItsToken ==
  /\ \A n \in Nodes :
       /\ \A k \in FalseAxes(n) :
            FalseClass(n, k) \in ClassWords(n)
              <=> Get(tree[n].activeVariants, k) \in {False, Word("false")}
       /\ \A r \in FalseRules(n) :
            RuleClassOf(r) \in ClassWords(n)
              <=> \A k \in KeySet(r) \ {"props"} :
                     /\ HasKey(tree[n].activeVariants, k)
                     /\ Get(tree[n].activeVariants, k) = False
       /\ \A k \in FalseAxes(n) :
            ~HasKey(tree[n].activeVariants, k) => FalseClass(n, k) \notin ClassWords(n)
  /\ SamePropsForFalse

\* an element without an active value for disabled, and below it one that
\* has false by default and one given false by a prop
C30_Witness ==
  /\ Len(tree) = 3
  /\ tree[1].type = "Switch" /\ tree[1].props = NoProps
  /\ ~HasKey(tree[1].activeVariants, "disabled")
  /\ ClassWords(1) = {"switch"}
  /\ tree[2].type = "SwitchOff" /\ tree[2].props = NoProps /\ tree[2].parent = 1
  /\ Get(tree[2].activeVariants, "disabled") = False
  /\ ClassWords(2) = {"switch", "is-enabled", "compound-enabled"}
  /\ tree[3].type = "Switch" /\ tree[3].props = PropsOff /\ tree[3].parent = 1
  /\ tree[3].finalProps = tree[2].finalProps

====
